---- MODULE Spec2Model ----
(***************************************************************************)
(* Model of the market aggregation engine.                                 *)
(*                                                                         *)
(*   Spec       the /api/markets route: response cache, top-level          *)
(*              single-flight, per-platform cache and single-flight,       *)
(*              fan-out with per-platform error recovery, stale fallback.  *)
(*   SpecRetry  the Opinion client's fetchWithRetry behind its             *)
(*              ConcurrencyLimiter.                                        *)
(*                                                                         *)
(* Time is the value of Date.now() in milliseconds.  Every async function  *)
(* is cut at its suspension points (await): one action is the code that    *)
(* runs between two of them.                                               *)
(***************************************************************************)
EXTENDS Integers, Sequences, FiniteSets, TLC

VARIABLES
    now,               \* Date.now()
    ticks,             \* number of clock steps taken
    cache,             \* route: let cache: CacheEntry | null
    inflightPromise,   \* route: let inflightPromise (0 = null, else the run's id)
    platformInflight,  \* route: Map platform -> in-flight fetch (0 = absent, else owning run)
    platformCache,     \* route: Map platform -> { data, expiresAt }
    runs,              \* the fetchMarkets invocations that have not settled
    req,               \* the GET invocations, one slot per concurrent client
    out,               \* the responses returned by the step just taken
    results,           \* fetchMarkets: the results array of the run that just settled
    calls,             \* number of platformFetchers[platform](limit) calls so far
    limiter,           \* opinion client: ConcurrencyLimiter { inflight, queue }
    fw,                \* opinion client: the fetchWithRetry invocations
    pager,             \* opinion client: the locals of the fetchMarkets call under study
    fnArg,             \* pure functions: the arguments of the call under study
    fnRet              \* pure functions: what the call returned

aggVars == <<now, ticks, cache, inflightPromise, platformInflight, platformCache, runs, req, out, results, calls>>
retryVars == <<limiter, fw>>
fnVars == <<fnArg, fnRet>>
otherThanAgg == <<limiter, fw, pager, fnArg, fnRet>>
otherThanRetry == <<now, ticks, cache, inflightPromise, platformInflight, platformCache, runs, req, out,
                    results, calls, pager, fnArg, fnRet>>
vars == <<now, ticks, cache, inflightPromise, platformInflight, platformCache, runs, req, out, results, calls,
          limiter, fw, pager, fnArg, fnRet>>

(***************************************************************************)
(* Bounds of the model                                                     *)
(***************************************************************************)
NumRequests == 2      \* concurrent GET invocations
NumPlatforms == 2     \* platforms of platformFetchers that are configured
MaxCalls == 2         \* upstream fetcher calls per platform
MaxTime == 70000      \* last value of Date.now()
MaxTicks == 3         \* clock steps in one behaviour
MaxFetchMs == 5000    \* longest time an upstream fetch stays pending
TickSteps == {5000, 60000}   \* the clock advances by one of these

Requests == 1..NumRequests

(***************************************************************************)
(* Program constants of the route                                          *)
(***************************************************************************)
DEFAULT_LIMIT == 50
MIN_LIMIT == 5
MAX_LIMIT == 200
CACHE_TTL_MS == 5000
MAX_STALE_AGE_MS == 60000

\* Object.keys(platformFetchers), in declaration order; the model runs the
\* first NumPlatforms of them
AllPlatforms == <<"opinion", "kalshi", "polymarket", "predictfun">>
PlatformOrder == SubSeq(AllPlatforms, 1, IF NumPlatforms < 4 THEN NumPlatforms ELSE 4)
Platforms == {PlatformOrder[i] : i \in 1..Len(PlatformOrder)}

\* mutant: one time-to-live for every platform
PLATFORM_TTLS_Uniform == [p \in Platforms |-> 15000]

PLATFORM_TTLS ==
    [p \in Platforms |->
        CASE p = "opinion" -> 10000
          [] p = "polymarket" -> 20000
          [] OTHER -> 30000]

(***************************************************************************)
(* Values                                                                  *)
(***************************************************************************)
\* T | null is a sequence of length at most one
Null == <<>>
Some(x) == <<x>>
Val(o) == o[1]

\* A snapshot: the platform, the fetcher call that produced it (gen), the
\* limit that call was given, and whether marketTitle is a string (the
\* opinion adapter copies the upstream field unchecked, the other adapters
\* wrap it in String(...)).
Snapshot(p, g, ok, limit) == [platform |-> p, gen |-> g, titleOk |-> ok, limit |-> limit]

\* What one successful call of platformFetchers[p](limit) can resolve to
Payloads(p, g, limit) ==
    {<<>>, <<Snapshot(p, g, TRUE, limit)>>}
        \cup (IF p = "opinion" THEN {<<Snapshot(p, g, FALSE, limit)>>} ELSE {})

NoBranch == [st |-> "done", on |-> 0, how |-> "none", status |-> "error",
             error |-> "", data |-> <<>>]

NoBody == [updatedAt |-> 0, stale |-> FALSE, list |-> <<>>,
           sources |-> [p \in Platforms |-> [status |-> "error", error |-> ""]],
           error |-> ""]

NoResp == [kind |-> "NONE", status |-> 0, body |-> NoBody]

(***************************************************************************)
(* Init                                                                    *)
(***************************************************************************)
InitAgg ==
    /\ now = 0
    /\ ticks = 0
    /\ cache = Null
    /\ inflightPromise = 0
    /\ platformInflight = [p \in Platforms |-> 0]
    /\ platformCache = [p \in Platforms |-> Null]
    /\ runs = [k \in Requests |-> Null]
    /\ req = [r \in Requests |-> [pc |-> "idle", run |-> 0, limit |-> 0]]
    /\ out = [r \in Requests |-> NoResp]
    /\ results = Null
    /\ calls = [p \in Platforms |-> 0]

(***************************************************************************)
(* Route helpers                                                           *)
(***************************************************************************)
\* mutant: the expiry comparison reversed
isCacheValid_Reversed == cache # Null /\ now > Val(cache).expiresAt

isCacheValid == cache # Null /\ now < Val(cache).expiresAt

StaleAge == now - Val(cache).expiresAt

\* mutant: the staleness ceiling is not applied
isStaleCacheValid_NoCeiling == cache # Null

isStaleCacheValid == IF cache = Null THEN FALSE ELSE StaleAge < MAX_STALE_AGE_MS

PlatformCacheFresh(p) ==
    platformCache[p] # Null /\ now < Val(platformCache[p]).expiresAt

\* apiRateLimiter.isAllowed(identifier): the limiter lives outside the route
\* and may refuse any request
RateLimitedResponse == [kind |-> "RATE429", status |-> 429, body |-> NoBody]

\* mutant: every cache miss starts its own run
ShouldStartRun_Always == TRUE

\* if (!inflightPromise) start a run, else attach to the one in flight
ShouldStartRun == inflightPromise = 0

\* mutant: the platform cache is not consulted
BranchStart_IgnoresCache(p, k) ==
    IF platformInflight[p] # 0
    THEN [st |-> "joined", on |-> platformInflight[p], how |-> "none",
          status |-> "error", error |-> "", data |-> <<>>]
    ELSE [st |-> "fetching", on |-> k, how |-> "none",
          status |-> "error", error |-> "", data |-> <<>>]

\* fetchMarkets, one platform: the code of the async map callback up to its
\* first await (or its return, when the platform cache is fresh)
BranchStart(p, k) ==
    IF PlatformCacheFresh(p)
    THEN [st |-> "done", on |-> 0, how |-> "cached", status |-> "live",
          error |-> "", data |-> Val(platformCache[p]).data]
    ELSE IF platformInflight[p] # 0
    THEN [st |-> "joined", on |-> platformInflight[p], how |-> "none",
          status |-> "error", error |-> "", data |-> <<>>]
    ELSE [st |-> "fetching", on |-> k, how |-> "none",
          status |-> "error", error |-> "", data |-> <<>>]

RunActive(k) == runs[k] # Null
RunReady(k) == RunActive(k) /\ \A p \in Platforms : Val(runs[k]).branch[p].st = "done"

\* Promise continuations run before the next request or timer is served
MicrotasksPending == \E k \in Requests : RunReady(k)

(***************************************************************************)
(* GET /api/markets                                                        *)
(***************************************************************************)
CanEnter(r) ==
    /\ req[r].pc = "idle"
    /\ \A q \in Requests : q < r => req[q].pc # "idle"
    /\ ~MicrotasksPending

\* The responses of one step: resp to the requests in rs, none to the others
Respond(rs, resp) == [r \in Requests |-> IF r \in rs THEN resp ELSE NoResp]
NoResponses == [r \in Requests |-> NoResp]
Idle == [pc |-> "idle", run |-> 0, limit |-> 0]

\* GET, refused by the rate limiter: 429, nothing else happens
GetRateLimited(r) ==
    /\ CanEnter(r)
    /\ out' = Respond({r}, RateLimitedResponse)
    /\ results' = Null
    /\ UNCHANGED <<now, ticks, cache, inflightPromise, platformInflight, platformCache, runs, req, calls>>
    /\ UNCHANGED otherThanAgg

\* GET inside the response-cache window: answered from the cache (X-Cache: HIT)
GetHitWith(r, limit) ==
    /\ CanEnter(r)
    /\ isCacheValid
    /\ out' = Respond({r}, [kind |-> "HIT", status |-> 200, body |-> Val(cache).data])
    /\ results' = Null
    /\ UNCHANGED <<now, ticks, cache, inflightPromise, platformInflight, platformCache, runs, req, calls>>
    /\ UNCHANGED otherThanAgg

\* a GET without limit parameter: parseLimit gives DEFAULT_LIMIT
GetHit(r) == GetHitWith(r, DEFAULT_LIMIT)

\* The platforms for which a run started now calls the upstream fetcher
StartsFetch(p) == BranchStart(p, 0).st = "fetching"

\* GET outside the window, up to `await inflightPromise`: starts fetchMarkets
\* (which runs every platform's callback up to its first await) unless a run
\* is already in flight
GetMissWith(r, limit) ==
    /\ CanEnter(r)
    /\ ~isCacheValid
    /\ IF ShouldStartRun
       THEN /\ ~RunActive(r)
            /\ \A p \in Platforms : StartsFetch(p) => calls[p] < MaxCalls
            /\ runs' = [runs EXCEPT ![r] =
                   Some([branch |-> [p \in Platforms |-> BranchStart(p, r)],
                         startedAt |-> now, limit |-> limit])]
            /\ platformInflight' =
                   [p \in Platforms |-> IF StartsFetch(p) THEN r ELSE platformInflight[p]]
            /\ calls' = [p \in Platforms |->
                            IF StartsFetch(p) THEN calls[p] + 1 ELSE calls[p]]
            /\ inflightPromise' = r
            /\ req' = [req EXCEPT ![r] = [pc |-> "awaiting", run |-> r, limit |-> limit]]
       ELSE /\ req' = [req EXCEPT ![r] =
                          [pc |-> "awaiting", run |-> inflightPromise, limit |-> limit]]
            /\ UNCHANGED <<runs, platformInflight, calls, inflightPromise>>
    /\ out' = NoResponses
    /\ results' = Null
    /\ UNCHANGED <<now, ticks, cache, platformCache>>
    /\ UNCHANGED otherThanAgg

GetMiss(r) == GetMissWith(r, DEFAULT_LIMIT)

(***************************************************************************)
(* fetchMarkets: the upstream fetch of one platform settles                *)
(***************************************************************************)
\* sanitizeError(error): some non-empty message
SanitizedError == "sanitized"

\* try { data = await inflight; platformCache.set(...); return live }
OwnerResolved(p, d) ==
    [st |-> "done", on |-> 0, how |-> "fetched", status |-> "live",
     error |-> "", data |-> d]

\* catch { fallback = platformCache.get(platform); return error, fallback data }
OwnerRejected(p) ==
    [st |-> "done", on |-> 0, how |-> "failed", status |-> "error",
     error |-> SanitizedError,
     data |-> IF platformCache[p] # Null THEN Val(platformCache[p]).data ELSE <<>>]

\* if (platformInflight.has(platform)) { try { await it; live } catch { error, [] } }
JoinerResolved(d) ==
    [st |-> "done", on |-> 0, how |-> "joinok", status |-> "live",
     error |-> "", data |-> d]

JoinerRejected ==
    [st |-> "done", on |-> 0, how |-> "joinfail", status |-> "error",
     error |-> SanitizedError, data |-> <<>>]

\* The branches of every run that wait for the fetch (k, p) continue
SettleBranches(k, p, owner, joiner) ==
    [j \in Requests |->
        IF runs[j] = Null THEN Null
        ELSE LET b == Val(runs[j]).branch[p] IN
             IF j = k /\ b.st = "fetching"
             THEN Some([Val(runs[j]) EXCEPT !.branch[p] = owner])
             ELSE IF b.st = "joined" /\ b.on = k
             THEN Some([Val(runs[j]) EXCEPT !.branch[p] = joiner])
             ELSE runs[j]]

Fetching(k, p) == RunActive(k) /\ Val(runs[k]).branch[p].st = "fetching"

\* mutant: a fetch that succeeded stays registered in platformInflight
FetchResolve_KeepsHandle(k, p, d) ==
    /\ Fetching(k, p)
    /\ runs' = SettleBranches(k, p, OwnerResolved(p, d), JoinerResolved(d))
    /\ platformCache' = [platformCache EXCEPT ![p] =
           Some([data |-> d, expiresAt |-> now + PLATFORM_TTLS[p]])]
    /\ out' = NoResponses
    /\ results' = Null
    /\ UNCHANGED <<now, ticks, cache, inflightPromise, platformInflight, req, calls>>
    /\ UNCHANGED otherThanAgg

\* platformFetchers[p](limit) resolves with the list d
FetchResolve(k, p, d) ==
    /\ Fetching(k, p)
    /\ runs' = SettleBranches(k, p, OwnerResolved(p, d), JoinerResolved(d))
    /\ platformCache' = [platformCache EXCEPT ![p] =
           Some([data |-> d, expiresAt |-> now + PLATFORM_TTLS[p]])]
    /\ platformInflight' = [platformInflight EXCEPT ![p] = 0]
    /\ out' = NoResponses
    /\ results' = Null
    /\ UNCHANGED <<now, ticks, cache, inflightPromise, req, calls>>
    /\ UNCHANGED otherThanAgg

\* mutant: a failed fetch stays registered in platformInflight
FetchReject_KeepsHandle(k, p) ==
    /\ Fetching(k, p)
    /\ runs' = SettleBranches(k, p, OwnerRejected(p), JoinerRejected)
    /\ out' = NoResponses
    /\ results' = Null
    /\ UNCHANGED <<now, ticks, cache, inflightPromise, platformInflight, platformCache, req, calls>>
    /\ UNCHANGED otherThanAgg

\* platformFetchers[p](limit) rejects (timeout, non-2xx, malformed body, ...)
FetchReject(k, p) ==
    /\ Fetching(k, p)
    /\ runs' = SettleBranches(k, p, OwnerRejected(p), JoinerRejected)
    /\ platformInflight' = [platformInflight EXCEPT ![p] = 0]
    /\ out' = NoResponses
    /\ results' = Null
    /\ UNCHANGED <<now, ticks, cache, inflightPromise, platformCache, req, calls>>
    /\ UNCHANGED otherThanAgg

(***************************************************************************)
(* fetchMarkets: Promise.all has every platform's result                   *)
(***************************************************************************)
\* mutant: the first failed platform ends the collection
RECURSIVE CollectList_StopAtError(_, _)
CollectList_StopAtError(branch, i) ==
    IF i > Len(PlatformOrder) THEN <<>>
    ELSE LET b == branch[PlatformOrder[i]] IN
         IF b.status = "live"
         THEN b.data \o CollectList_StopAtError(branch, i + 1)
         ELSE <<>>

\* results.forEach: only a "live" result pushes its data onto the list
RECURSIVE CollectList(_, _)
CollectList(branch, i) ==
    IF i > Len(PlatformOrder) THEN <<>>
    ELSE LET b == branch[PlatformOrder[i]] IN
         (IF b.status = "live" THEN b.data ELSE <<>>) \o CollectList(branch, i + 1)

\* results.forEach: sources[platform]
CollectSources(branch) ==
    [p \in Platforms |->
        IF branch[p].status = "live"
        THEN [status |-> "live", error |-> ""]
        ELSE [status |-> "error", error |-> branch[p].error]]

\* buildClusters(list) dereferences marketTitle of every snapshot
\* (classifyMarketTheme: title.toLowerCase()); it throws a TypeError when
\* a title is not a string, and returns at once for the empty list
BuildClustersThrows(list) == \E i \in 1..Len(list) : ~list[i].titleOk

NoDataError == "No market data returned from sources"

\* mutant: the empty result carries no error annotation
BuildResponse_NoAnnotation(branch) ==
    [updatedAt |-> now, stale |-> FALSE, list |-> CollectList(branch, 1),
     sources |-> CollectSources(branch), error |-> ""]

\* The MarketsResponse fetchMarkets returns (clusters and themes are a pure
\* function of list and are not carried in the model)
BuildResponse(branch) ==
    LET list == CollectList(branch, 1) IN
    [updatedAt |-> now, stale |-> FALSE, list |-> list,
     sources |-> CollectSources(branch),
     error |-> IF Len(list) = 0 THEN NoDataError ELSE ""]

Awaiters(k) == {r \in Requests : req[r].pc = "awaiting" /\ req[r].run = k}

\* GET after `await inflightPromise`: cache = { data, expiresAt }, X-Cache: MISS
MissResponse(data) == [kind |-> "MISS", status |-> 200, body |-> data]

\* GET catch block
CatchResponse ==
    IF isStaleCacheValid /\ cache # Null
    THEN [kind |-> "STALE", status |-> 200,
          body |-> [Val(cache).data EXCEPT !.stale = TRUE, !.error = SanitizedError]]
    ELSE [kind |-> "ERR500", status |-> 500,
          body |-> [NoBody EXCEPT !.error = "MARKETS_FETCH_FAILED"]]

\* fetchMarkets returns; .finally clears inflightPromise; every GET awaiting
\* the run stores the result in the cache and answers with it
RunResolve(k) ==
    /\ RunReady(k)
    /\ ~BuildClustersThrows(CollectList(Val(runs[k]).branch, 1))
    /\ LET data == BuildResponse(Val(runs[k]).branch) IN
        /\ out' = Respond(Awaiters(k), MissResponse(data))
        /\ results' = Some(Val(runs[k]).branch)
        /\ cache' = IF Awaiters(k) # {}
                    THEN Some([data |-> data, expiresAt |-> now + CACHE_TTL_MS])
                    ELSE cache
    /\ req' = [r \in Requests |-> IF r \in Awaiters(k) THEN Idle ELSE req[r]]
    /\ runs' = [runs EXCEPT ![k] = Null]
    /\ inflightPromise' = 0
    /\ UNCHANGED <<now, ticks, platformInflight, platformCache, calls>>
    /\ UNCHANGED otherThanAgg

\* mutant: the fallback is made by marking cache.data itself instead of a copy
RunReject_MarksCache(k) ==
    /\ RunReady(k)
    /\ BuildClustersThrows(CollectList(Val(runs[k]).branch, 1))
    /\ out' = Respond(Awaiters(k), CatchResponse)
    /\ results' = Some(Val(runs[k]).branch)
    /\ cache' = IF Awaiters(k) # {} /\ isStaleCacheValid /\ cache # Null
                THEN Some([Val(cache) EXCEPT !.data = CatchResponse.body])
                ELSE cache
    /\ req' = [r \in Requests |-> IF r \in Awaiters(k) THEN Idle ELSE req[r]]
    /\ runs' = [runs EXCEPT ![k] = Null]
    /\ inflightPromise' = 0
    /\ UNCHANGED <<now, ticks, platformInflight, platformCache, calls>>
    /\ UNCHANGED otherThanAgg

\* mutant: the catch block stores the answer it gives in the cache
RunReject_StoresAnswer(k) ==
    /\ RunReady(k)
    /\ BuildClustersThrows(CollectList(Val(runs[k]).branch, 1))
    /\ out' = Respond(Awaiters(k), CatchResponse)
    /\ results' = Some(Val(runs[k]).branch)
    /\ cache' = IF Awaiters(k) # {}
                THEN Some([data |-> CatchResponse.body, expiresAt |-> now + CACHE_TTL_MS])
                ELSE cache
    /\ req' = [r \in Requests |-> IF r \in Awaiters(k) THEN Idle ELSE req[r]]
    /\ runs' = [runs EXCEPT ![k] = Null]
    /\ inflightPromise' = 0
    /\ UNCHANGED <<now, ticks, platformInflight, platformCache, calls>>
    /\ UNCHANGED otherThanAgg

\* fetchMarkets throws; .finally clears inflightPromise; every GET awaiting
\* the run answers from its catch block
RunReject(k) ==
    /\ RunReady(k)
    /\ BuildClustersThrows(CollectList(Val(runs[k]).branch, 1))
    /\ out' = Respond(Awaiters(k), CatchResponse)
    /\ results' = Some(Val(runs[k]).branch)
    /\ req' = [r \in Requests |-> IF r \in Awaiters(k) THEN Idle ELSE req[r]]
    /\ runs' = [runs EXCEPT ![k] = Null]
    /\ inflightPromise' = 0
    /\ UNCHANGED <<now, ticks, cache, platformInflight, platformCache, calls>>
    /\ UNCHANGED otherThanAgg

(***************************************************************************)
(* The clock                                                               *)
(***************************************************************************)
Tick(d) ==
    /\ ~MicrotasksPending
    /\ now + d <= MaxTime
    /\ ticks < MaxTicks
    /\ \A k \in Requests : \A p \in Platforms :
           Fetching(k, p) => now + d - Val(runs[k]).startedAt <= MaxFetchMs
    /\ now' = now + d
    /\ ticks' = ticks + 1
    /\ out' = NoResponses
    /\ results' = Null
    /\ UNCHANGED <<cache, inflightPromise, platformInflight, platformCache, runs, req, calls>>
    /\ UNCHANGED otherThanAgg

\* mutant: the fetchers are given the largest limit among the requests
\* waiting for the run
CallLimit_Largest(k) ==
    IF RunActive(k)
    THEN LET asked == {req[r].limit : r \in Awaiters(k)} \cup {Val(runs[k]).limit} IN
         CHOOSE l \in asked : \A m \in asked : m <= l
    ELSE 0

\* platformFetchers[platform](limit): limit is the parameter of the
\* fetchMarkets call that made the fetcher call
CallLimit(k) == IF RunActive(k) THEN Val(runs[k]).limit ELSE 0

Next ==
    \/ \E r \in Requests : GetRateLimited(r)
    \/ \E r \in Requests : GetHit(r)
    \/ \E r \in Requests : GetMiss(r)
    \/ \E k \in Requests : \E p \in Platforms : \E d \in Payloads(p, calls[p], CallLimit(k)) :
           FetchResolve(k, p, d)
    \/ \E k \in Requests : \E p \in Platforms : FetchReject(k, p)
    \/ \E k \in Requests : RunResolve(k)
    \/ \E k \in Requests : RunReject(k)
    \/ \E d \in TickSteps : Tick(d)

InitRetryIdle == limiter = [inflight |-> 0, queue |-> <<>>] /\ fw = <<>>
InitFnIdle == fnArg = <<>> /\ fnRet = <<>>
InitPagerIdle == pager = <<>>

Init == InitAgg /\ InitRetryIdle /\ InitFnIdle /\ InitPagerIdle


Spec == Init /\ [][Next]_vars

(***************************************************************************)
(* Properties of the route (checked under Spec)                            *)
(***************************************************************************)
Range(seq) == {seq[i] : i \in 1..Len(seq)}
FetchersOf(p) == {k \in Requests : Fetching(k, p)}
AwaitingRequests == {r \in Requests : req[r].pc = "awaiting"}
Responded == {r \in Requests : out[r].kind # "NONE"}

\* The run that just settled threw / returned
RunThrew == results # Null /\ \E r \in Requests : out[r].kind \in {"STALE", "ERR500"}
RunReturned == results # Null /\ \E r \in Requests : out[r].kind = "MISS"
ReturnedBody == out[CHOOSE r \in Requests : out[r].kind = "MISS"].body

\* C1: per-source single-flight.  A platform has at most one upstream fetch
\* pending, whatever the number of waiting requests; the pending fetch is the
\* one registered in platformInflight, and it was started at a time when the
\* platform's cache entry was missing or expired.
C1_SourceSingleFlight ==
    \A p \in Platforms :
        /\ Cardinality(FetchersOf(p)) <= 1
        /\ \A k \in FetchersOf(p) :
              /\ platformInflight[p] = k
              /\ platformCache[p] # Null =>
                     Val(runs[k]).startedAt >= Val(platformCache[p]).expiresAt
        /\ FetchersOf(p) = {} => platformInflight[p] = 0

C1_Witness ==
    /\ Cardinality(AwaitingRequests) >= 2
    /\ \E p \in Platforms : FetchersOf(p) # {} /\ calls[p] = 1

\* C2: top-level single-flight.  At most one fetchMarkets run is in progress,
\* it is the one inflightPromise holds, every waiting GET waits for it, and
\* the GETs answered by one settling run get the same response.
C2_TopLevelSingleFlight ==
    /\ Cardinality({k \in Requests : RunActive(k)}) <= 1
    /\ \A k \in Requests : RunActive(k) => inflightPromise = k
    /\ \A r \in AwaitingRequests : req[r].run = inflightPromise /\ RunActive(req[r].run)
    /\ \A r1, r2 \in Responded :
           (out[r1].kind # "RATE429" /\ out[r2].kind # "RATE429") => out[r1] = out[r2]

C2_Witness ==
    \E r1, r2 \in Requests : r1 # r2 /\ out[r1].kind = "MISS" /\ out[r2].kind = "MISS"

\* C3: stale fallback.  When the run throws, the answer is the cached result
\* flagged stale if the entry's age (time since its expiresAt) is below
\* MAX_STALE_AGE_MS, and HTTP 500 MARKETS_FETCH_FAILED if there is no entry or
\* its age is above the ceiling.
C3_StaleFallback ==
    RunThrew =>
        /\ ~(cache # Null /\ now < Val(cache).expiresAt)
        /\ \A r \in Responded :
              /\ (cache # Null /\ now - Val(cache).expiresAt < MAX_STALE_AGE_MS) =>
                     /\ out[r].kind = "STALE"
                     /\ out[r].status = 200
                     /\ out[r].body.stale
                     /\ out[r].body.list = Val(cache).data.list
                     /\ out[r].body.sources = Val(cache).data.sources
                     /\ out[r].body.updatedAt = Val(cache).data.updatedAt
              /\ (cache = Null \/ now - Val(cache).expiresAt > MAX_STALE_AGE_MS) =>
                     /\ out[r].kind = "ERR500"
                     /\ out[r].status = 500
                     /\ out[r].body.error = "MARKETS_FETCH_FAILED"

C3_Witness ==
    \E r \in Requests : out[r].kind = "STALE" /\ Len(out[r].body.list) > 0

\* C4: bulkhead.  When exactly one platform's fetch failed in the run and the
\* fetch of every other platform succeeded, the list is the concatenation of
\* the succeeding platforms' data, the failing platform alone is marked error
\* with a message, and the others are marked live.
RECURSIVE ConcatOthers(_, _, _)
ConcatOthers(branch, failed, i) ==
    IF i > Len(PlatformOrder) THEN <<>>
    ELSE (IF PlatformOrder[i] = failed THEN <<>> ELSE branch[PlatformOrder[i]].data)
             \o ConcatOthers(branch, failed, i + 1)

OneFailedOthersFetched(branch, p) ==
    /\ branch[p].how = "failed"
    /\ \A q \in Platforms \ {p} : branch[q].how = "fetched"

C4_Bulkhead ==
    \A p \in Platforms :
        (RunReturned /\ OneFailedOthersFetched(Val(results), p)) =>
            /\ ReturnedBody.list = ConcatOthers(Val(results), p, 1)
            /\ ReturnedBody.sources[p].status = "error"
            /\ ReturnedBody.sources[p].error # ""
            /\ \A q \in Platforms \ {p} : ReturnedBody.sources[q].status = "live"

C4_Witness ==
    \E p \in Platforms :
        /\ RunReturned
        /\ OneFailedOthersFetched(Val(results), p)
        /\ Len(ReturnedBody.list) > 0

\* C5 (as claimed): a platform whose fetch failed and that has a previous
\* cache entry contributes that entry's snapshots to the list of the run.
C5_DegradedDataInList ==
    \A p \in Platforms :
        (RunReturned /\ Val(results)[p].how = "failed") =>
            Range(Val(results)[p].data) \subseteq Range(ReturnedBody.list)

\* C6 (as claimed): no HTTP 500 for a run in which some platform's fetch
\* succeeded.
C6_NoHardErrorIfOneSucceeds ==
    \A r \in Requests :
        out[r].kind = "ERR500" =>
            ~ \E p \in Platforms : Val(results)[p].how = "fetched"

\* C7: when every platform failed, the run returns (it does not throw) an
\* empty list, every source marked error, stale = false and the error
\* annotation.
AllFailed(branch) == \A p \in Platforms : branch[p].how \in {"failed", "joinfail"}

C7_AllFailedStillReturns ==
    (results # Null /\ AllFailed(Val(results))) =>
        /\ RunReturned
        /\ \A r \in Responded :
              /\ out[r].kind = "MISS"
              /\ out[r].status = 200
              /\ out[r].body.list = <<>>
              /\ \A p \in Platforms : out[r].body.sources[p].status = "error"
              /\ out[r].body.stale = FALSE
              /\ out[r].body.error = NoDataError

C7_Witness == results # Null /\ AllFailed(Val(results)) /\ Responded # {}

\* C8 (as claimed): when the cached result is within the staleness ceiling
\* and every platform fails in the next run, the response still carries the
\* cached result's snapshots.
C8_RecentCacheSurvivesTotalFailure ==
    [][ ( /\ cache # Null
          /\ now - Val(cache).expiresAt < MAX_STALE_AGE_MS
          /\ Len(Val(cache).data.list) > 0
          /\ results' # Null
          /\ AllFailed(Val(results')) )
        => \A r \in Requests :
               out'[r].kind # "NONE" => out'[r].body.list = Val(cache).data.list ]_vars

\* C9: inside the response-cache window a GET is answered from the cache (or
\* refused by the rate limiter): no request starts or joins a run, no fetcher
\* is called, and no cache entry changes.
C9_WindowServesFromCache ==
    [][ (cache # Null /\ now < Val(cache).expiresAt)
        => /\ UNCHANGED <<cache, platformCache, runs, inflightPromise,
                          platformInflight, calls, req>>
           /\ \A r \in Requests :
                  /\ out'[r].kind \in {"NONE", "RATE429", "HIT"}
                  /\ out'[r].kind = "HIT" =>
                         out'[r].status = 200 /\ out'[r].body = Val(cache).data ]_vars

C9_Witness ==
    \E r \in Requests : out[r].kind = "HIT" /\ Len(out[r].body.list) > 0

(***************************************************************************)
(* Cache and single-flight bookkeeping of the route (checked under Spec)   *)
(***************************************************************************)
\* the upstream fetch of p owned by run k settles in this step, this way
FetchSettles(k, p, how) ==
    /\ Fetching(k, p)
    /\ runs'[k] # Null
    /\ Val(runs'[k]).branch[p].how = how

\* the time-to-live of each source, as documented
SourceTtl(p) ==
    IF p = "opinion" THEN 10000 ELSE IF p = "polymarket" THEN 20000 ELSE 30000

\* run k starts in this step
RunStarts(k) == runs[k] = Null /\ runs'[k] # Null

\* C25: a platform's cache entry changes only when an upstream fetch of that
\* platform succeeds; the success stores the fetched list with expiresAt =
\* now + the platform's own time-to-live; and a run that finds a fresh entry
\* takes the platform's data from it as live and calls no fetcher.
C25_CacheWrittenBySuccess ==
    [][ \A p \in Platforms :
          /\ platformCache'[p] # platformCache[p] =>
                 \E k \in Requests : FetchSettles(k, p, "fetched")
          /\ \A k \in Requests :
                 FetchSettles(k, p, "fetched") =>
                     platformCache'[p] =
                         Some([data |-> Val(runs'[k]).branch[p].data,
                               expiresAt |-> now + SourceTtl(p)])
          /\ \A k \in Requests :
                 (RunStarts(k) /\ platformCache[p] # Null
                               /\ now < Val(platformCache[p]).expiresAt) =>
                     /\ Val(runs'[k]).branch[p].st = "done"
                     /\ Val(runs'[k]).branch[p].status = "live"
                     /\ Val(runs'[k]).branch[p].data = Val(platformCache[p]).data
                     /\ calls'[p] = calls[p]
                     /\ platformInflight'[p] = platformInflight[p] ]_vars

\* a run takes opinion from its fresh entry while its kalshi fetch has just
\* stored a list that expires 30 s from now
C25_Witness ==
    /\ now > 0
    /\ \E k \in Requests :
          /\ RunActive(k)
          /\ Val(runs[k]).branch["opinion"].how = "cached"
          /\ Val(runs[k]).branch["kalshi"].how = "fetched"
          /\ Val(runs[k]).startedAt = now
    /\ platformCache["kalshi"] # Null
    /\ Val(platformCache["kalshi"]).expiresAt = now + 30000
    /\ Len(Val(platformCache["kalshi"]).data) > 0

\* C26: a settled handle is never left registered.  The step in which a
\* platform's fetch settles (either way) removes it from platformInflight,
\* the step in which a run settles (either way) sets inflightPromise to null;
\* so a registered handle is always a pending one, every waiting request and
\* every joined branch waits for something pending, and a cache miss that
\* finds no run in flight starts one.
C26_HandlesCleared ==
    /\ [] /\ \A p \in Platforms :
                platformInflight[p] # 0 => Fetching(platformInflight[p], p)
          /\ inflightPromise # 0 => RunActive(inflightPromise)
          /\ \A r \in Requests : req[r].pc = "awaiting" => RunActive(req[r].run)
          /\ \A k \in Requests : \A p \in Platforms :
                (RunActive(k) /\ Val(runs[k]).branch[p].st = "joined") =>
                    Fetching(Val(runs[k]).branch[p].on, p)
    /\ [][ /\ \A p \in Platforms : \A k \in Requests :
                (Fetching(k, p) /\ ~Fetching(k, p)') => platformInflight'[p] = 0
           /\ \A k \in Requests :
                (RunActive(k) /\ ~RunActive(k)') => inflightPromise' = 0
           /\ \A r \in Requests :
                (req[r].pc = "idle" /\ req'[r].pc = "awaiting" /\ ~\E k \in Requests : RunActive(k))
                    => RunStarts(r) ]_vars

\* a second upstream fetch of a platform is pending after the first one
\* failed and the run that owned it settled
C26_Witness ==
    \E p \in Platforms : \E k \in Requests :
        /\ Fetching(k, p)
        /\ calls[p] = 2
        /\ platformCache[p] = Null

\* C27: a failed upstream fetch leaves the platform's cache entry as it was,
\* and without a previous entry it gives that platform status error and no
\* data while the other platforms' results are untouched; a run that throws
\* (answered stale or with 500) leaves the response cache as it was.
C27_FailureLeavesCaches ==
    /\ [][ /\ \A p \in Platforms : \A k \in Requests :
                FetchSettles(k, p, "failed") =>
                    /\ platformCache'[p] = platformCache[p]
                    /\ platformCache[p] = Null =>
                          /\ Val(runs'[k]).branch[p].status = "error"
                          /\ Val(runs'[k]).branch[p].data = <<>>
                    /\ \A q \in Platforms \ {p} :
                          /\ platformCache'[q] = platformCache[q]
                          /\ Val(runs'[k]).branch[q] = Val(runs[k]).branch[q]
           /\ (\E r \in Requests : out'[r].kind \in {"STALE", "ERR500"}) => cache' = cache ]_vars
    /\ [] \A p \in Platforms :
            (RunReturned /\ Val(results)[p].how = "failed" /\ Val(results)[p].data = <<>>) =>
                /\ ReturnedBody.sources[p].status = "error"
                /\ \A i \in 1..Len(ReturnedBody.list) : ReturnedBody.list[i].platform # p
                /\ \A q \in Platforms :
                      Val(results)[q].how = "fetched" =>
                          /\ ReturnedBody.sources[q].status = "live"
                          /\ Range(Val(results)[q].data) \subseteq Range(ReturnedBody.list)

\* a run threw and was answered from the stale cache, after the fetch of a
\* platform with a previous entry had failed in it
C27_Witness ==
    /\ RunThrew
    /\ \E r \in Requests : out[r].kind = "STALE"
    /\ cache # Null
    /\ \E p \in Platforms :
          /\ Val(results)[p].how = "failed"
          /\ platformCache[p] # Null

(***************************************************************************)
(* Opinion client: ConcurrencyLimiter and fetchWithRetry                   *)
(***************************************************************************)
NumCallers == 2       \* concurrent fetchWithRetry invocations
MaxConcurrent == 1    \* maxConcurrent of the limiter under test (the client passes 10)

Callers == 1..NumCallers

MAX_RETRIES == 2
INITIAL_BACKOFF_MS == 500

\* What one fetchWithTimeout can produce: a response with a status, or an
\* exception (the AbortController's abort on timeout, a network error)
Statuses == {200, 404, 429, 500}
FetchErrors == {"abort", "network"}

isRetryableStatus(status) == status = 429 \/ (status >= 500 /\ status < 600)

FwIdle == [pc |-> "idle", attempt |-> 0, backoffMs |-> INITIAL_BACKOFF_MS,
           lastError |-> "null", lastStatus |-> 0, attempts |-> 0, sleeps |-> <<>>]

InitRetry ==
    /\ InitAgg
    /\ InitPagerIdle
    /\ InitFnIdle
    /\ limiter = [inflight |-> 0, queue |-> <<>>]
    /\ fw = [c \in Callers |-> FwIdle]

\* mutant: acquire admits every caller
Acquire_NoGate(st, c) ==
    [lim |-> [st.lim EXCEPT !.inflight = @ + 1],
     f |-> [st.f EXCEPT ![c].pc = "fetching", ![c].attempts = @ + 1]]

\* limiter.acquire() by caller c, then (once admitted) fetchWithTimeout
Acquire(st, c) ==
    IF st.lim.inflight < MaxConcurrent
    THEN [lim |-> [st.lim EXCEPT !.inflight = @ + 1],
          f |-> [st.f EXCEPT ![c].pc = "fetching", ![c].attempts = @ + 1]]
    ELSE [lim |-> [st.lim EXCEPT !.queue = Append(@, c)],
          f |-> [st.f EXCEPT ![c].pc = "queued"]]

\* mutant: release admits the caller that queued last
Release_Lifo(st) ==
    IF st.lim.queue = <<>>
    THEN [lim |-> [st.lim EXCEPT !.inflight = @ - 1], f |-> st.f]
    ELSE LET h == st.lim.queue[Len(st.lim.queue)] IN
         [lim |-> [inflight |-> (st.lim.inflight - 1) + 1,
                   queue |-> SubSeq(st.lim.queue, 1, Len(st.lim.queue) - 1)],
          f |-> [st.f EXCEPT ![h].pc = "fetching", ![h].attempts = @ + 1]]

\* limiter.release(): inflight--, then the head of the queue (if any) runs
\* its closure (inflight++, resolve) and goes on to fetchWithTimeout
Release(st) ==
    IF st.lim.queue = <<>>
    THEN [lim |-> [st.lim EXCEPT !.inflight = @ - 1], f |-> st.f]
    ELSE LET h == Head(st.lim.queue) IN
         [lim |-> [inflight |-> (st.lim.inflight - 1) + 1, queue |-> Tail(st.lim.queue)],
          f |-> [st.f EXCEPT ![h].pc = "fetching", ![h].attempts = @ + 1]]

\* catch (error) of the outer try: remember the error, then back off and go
\* round the loop again unless this was the last attempt
Caught(f, c, message) ==
    IF f[c].attempt < MAX_RETRIES
    THEN [f EXCEPT ![c].lastError = message,
                   ![c].pc = "sleepReleased",
                   ![c].sleeps = Append(@, f[c].backoffMs)]
    ELSE [f EXCEPT ![c].lastError = message,
                   ![c].attempt = @ + 1,
                   ![c].pc = "thrown"]

\* fetchWithRetry(url, options) is called: attempt = 0, await limiter.acquire()
FwCall(c) ==
    /\ fw[c].pc = "idle"
    /\ LET st == Acquire([lim |-> limiter, f |-> fw], c) IN
        /\ limiter' = st.lim
        /\ fw' = st.f
    /\ UNCHANGED otherThanRetry

\* fetchWithTimeout resolves with a response of the given status
FwResponse(c, status) ==
    /\ fw[c].pc = "fetching"
    /\ LET f0 == [fw EXCEPT ![c].lastStatus = status] IN
       IF status = 200
       THEN \* return response; finally release
            LET st == Release([lim |-> limiter, f |-> [f0 EXCEPT ![c].pc = "returned"]]) IN
            limiter' = st.lim /\ fw' = st.f
       ELSE IF isRetryableStatus(status) /\ fw[c].attempt < MAX_RETRIES
       THEN \* await sleep(backoffMs) inside the inner try: the slot is kept
            /\ fw' = [f0 EXCEPT ![c].pc = "sleepHolding",
                                ![c].sleeps = Append(@, fw[c].backoffMs)]
            /\ limiter' = limiter
       ELSE \* throw new Error(`Opinion API error: ...`); finally release; catch
            LET st == Release([lim |-> limiter, f |-> f0]) IN
            limiter' = st.lim /\ fw' = Caught(st.f, c, "status")
    /\ UNCHANGED otherThanRetry

\* mutant: the slot is released on the way out of the try only, not when
\* fetchWithTimeout throws
FwFetchError_NoRelease(c, e) ==
    /\ fw[c].pc = "fetching"
    /\ limiter' = limiter
    /\ fw' = Caught([fw EXCEPT ![c].lastStatus = 0], c, IF e = "abort" THEN "timeout" ELSE e)
    /\ UNCHANGED otherThanRetry

\* fetchWithTimeout throws (timeout abort or network error): finally release; catch
FwFetchError(c, e) ==
    /\ fw[c].pc = "fetching"
    /\ LET st == Release([lim |-> limiter, f |-> [fw EXCEPT ![c].lastStatus = 0]]) IN
        /\ limiter' = st.lim
        /\ fw' = Caught(st.f, c, IF e = "abort" THEN "timeout" ELSE e)
    /\ UNCHANGED otherThanRetry

\* mutant: the backoff is not doubled
FwWake_NoDoubling(c) ==
    /\ fw[c].pc \in {"sleepHolding", "sleepReleased"}
    /\ LET f1 == [fw EXCEPT ![c].attempt = @ + 1]
           s1 == IF fw[c].pc = "sleepHolding"
                 THEN Release([lim |-> limiter, f |-> f1])
                 ELSE [lim |-> limiter, f |-> f1]
           st == Acquire(s1, c) IN
        /\ limiter' = st.lim
        /\ fw' = st.f
    /\ UNCHANGED otherThanRetry

\* sleep(backoffMs) is over: backoffMs *= 2; continue (leaving the inner try
\* releases the slot); attempt++; await limiter.acquire()
FwWake(c) ==
    /\ fw[c].pc \in {"sleepHolding", "sleepReleased"}
    /\ LET f1 == [fw EXCEPT ![c].backoffMs = @ * 2, ![c].attempt = @ + 1]
           s1 == IF fw[c].pc = "sleepHolding"
                 THEN Release([lim |-> limiter, f |-> f1])
                 ELSE [lim |-> limiter, f |-> f1]
           st == Acquire(s1, c) IN
        /\ limiter' = st.lim
        /\ fw' = st.f
    /\ UNCHANGED otherThanRetry

NextRetry ==
    \/ \E c \in Callers : FwCall(c)
    \/ \E c \in Callers : \E status \in Statuses : FwResponse(c, status)
    \/ \E c \in Callers : \E e \in FetchErrors : FwFetchError(c, e)
    \/ \E c \in Callers : FwWake(c)

SpecRetry == InitRetry /\ [][NextRetry]_vars

\* The upstream answers every request or the AbortController's timer aborts
\* it (fetchWithTimeout), and the setTimeout of sleep fires
FwSettles(c) ==
    \/ \E status \in Statuses : FwResponse(c, status)
    \/ \E e \in FetchErrors : FwFetchError(c, e)

SpecRetryFair ==
    SpecRetry /\ \A c \in Callers : WF_vars(FwSettles(c)) /\ WF_vars(FwWake(c))

(***************************************************************************)
(* Properties of fetchWithRetry (checked under SpecRetry)                  *)
(***************************************************************************)
NonTransient(status) == status >= 400 /\ status < 500 /\ status # 429

\* C10 (as claimed): after a response with a 4xx status other than 429 the
\* call makes no further attempt: the error is thrown at once.
C10_NonTransientNotRetried ==
    \A c \in Callers : NonTransient(fw[c].lastStatus) => fw[c].pc = "thrown"

Terminated(c) == fw[c].pc \in {"returned", "thrown"}

\* the sleeps made so far are the first ones of 500 ms, 1000 ms
BackoffPrefix(s) ==
    /\ Len(s) <= MAX_RETRIES
    /\ \A i \in 1..Len(s) : s[i] = INITIAL_BACKOFF_MS * (2 ^ (i - 1))

RetryBounded ==
    \A c \in Callers :
        /\ fw[c].attempts <= MAX_RETRIES + 1
        /\ BackoffPrefix(fw[c].sleeps)
        /\ fw[c].pc \in {"fetching", "returned", "thrown"} =>
               Len(fw[c].sleeps) = fw[c].attempts - 1
        /\ fw[c].pc = "returned" => fw[c].lastStatus = 200
        /\ fw[c].pc = "thrown" =>
               /\ fw[c].attempts = MAX_RETRIES + 1
               /\ fw[c].lastStatus # 200
               /\ fw[c].lastError = (IF fw[c].lastStatus # 0 THEN "status" ELSE fw[c].lastError)
               /\ fw[c].lastError \in {"status", "timeout", "network"}

\* C11: fetchWithRetry makes at most MAX_RETRIES + 1 = 3 attempts, sleeps
\* 500 ms before the second and 1000 ms before the third, and every call
\* ends: it returns the response or throws the last error (a timeout as the
\* timed-out error).
C11_BoundedBackoff ==
    /\ []RetryBounded
    /\ \A c \in Callers : (fw[c].pc # "idle") ~> Terminated(c)

C11_Witness ==
    \E c \in Callers :
        /\ fw[c].pc = "thrown"
        /\ fw[c].attempts = 3
        /\ fw[c].sleeps = <<500, 1000>>
        /\ fw[c].lastError = "timeout"

Holders == {c \in DOMAIN fw : fw[c].pc \in {"fetching", "sleepHolding"}}

\* C12: the inflight count of the limiter is never above maxConcurrent and
\* never negative, and it is the number of callers between their acquire
\* and their release (requests in flight included).
C12_GateBounded ==
    /\ limiter.inflight >= 0
    /\ limiter.inflight <= MaxConcurrent
    /\ Cardinality(Holders) = limiter.inflight

C12_Witness ==
    /\ limiter.inflight = MaxConcurrent
    /\ limiter.queue # <<>>
    /\ \E c \in Callers : fw[c].pc = "sleepHolding"

(***************************************************************************)
(* ConcurrencyLimiter on its own: any interleaving of acquire and release  *)
(***************************************************************************)
NumGateCallers == 3   \* callers of the limiter
MaxAcquires == 2      \* slots one caller obtains in a behaviour

GateCallers == 1..NumGateCallers

InitGate ==
    /\ InitAgg
    /\ InitPagerIdle
    /\ InitFnIdle
    /\ limiter = [inflight |-> 0, queue |-> <<>>]
    /\ fw = [c \in GateCallers |-> FwIdle]

\* await limiter.acquire()
GateAcquire(c) ==
    /\ fw[c].pc = "idle"
    /\ fw[c].attempts < MaxAcquires
    /\ LET st == Acquire([lim |-> limiter, f |-> fw], c) IN
        /\ limiter' = st.lim
        /\ fw' = st.f
    /\ UNCHANGED otherThanRetry

\* limiter.release() by a caller that holds a slot
GateRelease(c) ==
    /\ fw[c].pc = "fetching"
    /\ LET st == Release([lim |-> limiter, f |-> [fw EXCEPT ![c].pc = "idle"]]) IN
        /\ limiter' = st.lim
        /\ fw' = st.f
    /\ UNCHANGED otherThanRetry

NextGate ==
    \/ \E c \in GateCallers : GateAcquire(c)
    \/ \E c \in GateCallers : GateRelease(c)

SpecGate == InitGate /\ [][NextGate]_vars

\* every holder eventually releases (the finally block of fetchWithRetry)
SpecGateFair == SpecGate /\ \A c \in GateCallers : WF_vars(GateRelease(c))

Queued == {c \in DOMAIN fw : fw[c].pc = "queued"}

QueueIsWaiters ==
    /\ Range(limiter.queue) = Queued
    /\ Len(limiter.queue) = Cardinality(Queued)
    /\ limiter.queue # <<>> => limiter.inflight = MaxConcurrent

\* a step takes at most the head off the queue and adds at most one caller
\* at its end; whoever obtains a slot while callers wait is that head
FifoStep ==
    /\ \/ limiter'.queue = limiter.queue
       \/ \E c \in DOMAIN fw : limiter'.queue = Append(limiter.queue, c)
       \/ limiter.queue # <<>> /\ limiter'.queue = Tail(limiter.queue)
       \/ limiter.queue # <<>> /\
            \E c \in DOMAIN fw : limiter'.queue = Append(Tail(limiter.queue), c)
    /\ \A c \in DOMAIN fw :
          (fw[c].pc # "fetching" /\ fw'[c].pc = "fetching" /\ limiter.queue # <<>>)
              => c = Head(limiter.queue)
    /\ \A c \in DOMAIN fw :
          (fw[c].pc = "queued" /\ fw'[c].pc # "queued")
              => c = Head(limiter.queue) /\ fw'[c].pc = "fetching"

\* C13: queued callers are admitted in the order of their acquire calls,
\* one per release; nobody obtains a slot ahead of a queued caller (a
\* non-empty queue means the gate is full); and every queued caller is
\* admitted in the end when holders release.
C13_FifoAdmission ==
    /\ []QueueIsWaiters
    /\ [][FifoStep]_vars
    /\ \A c \in GateCallers : (fw[c].pc = "queued") ~> (fw[c].pc = "fetching")

C13_Witness ==
    /\ Len(limiter.queue) >= 2
    /\ limiter.inflight = MaxConcurrent
    /\ \E c \in GateCallers : fw[c].pc = "queued" /\ fw[c].attempts >= 1

(***************************************************************************)
(* GET /api/markets: parseLimit                                            *)
(***************************************************************************)
MaxParamLen == 3      \* longest limit parameter tried

\* characters of the limit parameter: digits, a sign, a blank, a letter
ParamChars == {"0", "1", "5", "9", "-", " ", "a"}
Digits == <<"0", "1", "2", "3", "4", "5", "6", "7", "8", "9">>
IsDigit(ch) == \E d \in 1..10 : Digits[d] = ch
DigitValue(ch) == (CHOOSE d \in 1..10 : Digits[d] = ch) - 1

RECURSIVE StringsUpTo(_)
StringsUpTo(n) ==
    IF n = 0 THEN {<<>>}
    ELSE LET shorter == StringsUpTo(n - 1) IN
         shorter \cup {Append(s, ch) : s \in {x \in shorter : Len(x) = n - 1}, ch \in ParamChars}

\* a parsed number is <<n>>, NaN is <<>>
NaN == <<>>

\* the digits at the front of s, read in base 10 onto acc
RECURSIVE ReadDigits(_, _)
ReadDigits(s, acc) ==
    IF s # <<>> /\ IsDigit(Head(s))
    THEN ReadDigits(Tail(s), acc * 10 + DigitValue(Head(s)))
    ELSE acc

RECURSIVE TrimStart(_)
TrimStart(s) == IF s # <<>> /\ Head(s) = " " THEN TrimStart(Tail(s)) ELSE s

\* Number.parseInt(s, 10): leading blanks skipped, an optional sign, then
\* the longest run of digits; NaN when there is no digit there
ParseInt(s) ==
    LET t == TrimStart(s)
        neg == t # <<>> /\ Head(t) = "-"
        d == IF neg THEN Tail(t) ELSE t
    IN IF d = <<>> \/ ~IsDigit(Head(d)) THEN NaN
       ELSE IF neg THEN <<0 - ReadDigits(d, 0)>> ELSE <<ReadDigits(d, 0)>>

Min(a, b) == IF a < b THEN a ELSE b
Max(a, b) == IF a > b THEN a ELSE b

\* mutant: the parsed value is returned as it is
parseLimit_NoClamp(limitParam, valid) ==
    IF limitParam = Null THEN DEFAULT_LIMIT
    ELSE IF ~valid THEN DEFAULT_LIMIT
    ELSE LET parsed == ParseInt(Val(limitParam)) IN
         IF parsed = NaN THEN DEFAULT_LIMIT
         ELSE parsed[1]

\* valid: the verdict of validateLimitParam(limitParam)
parseLimit(limitParam, valid) ==
    IF limitParam = Null THEN DEFAULT_LIMIT
    ELSE IF ~valid THEN DEFAULT_LIMIT
    ELSE LET parsed == ParseInt(Val(limitParam)) IN
         IF parsed = NaN THEN DEFAULT_LIMIT
         ELSE Max(MIN_LIMIT, Min(MAX_LIMIT, parsed[1]))

InitLimit ==
    /\ InitAgg
    /\ InitPagerIdle
    /\ InitRetryIdle
    /\ fnArg \in [fn : {"parseLimit"},
                  limitParam : {Null} \cup {Some(s) : s \in StringsUpTo(MaxParamLen)},
                  valid : BOOLEAN]
    /\ fnRet = <<>>

ParseLimit ==
    /\ fnArg.fn = "parseLimit"
    /\ fnRet = <<>>
    /\ fnRet' = <<parseLimit(fnArg.limitParam, fnArg.valid)>>
    /\ UNCHANGED <<aggVars, retryVars, pager, fnArg>>

NextLimit == ParseLimit

SpecLimit == InitLimit /\ [][NextLimit]_vars

\* the integers a parameter denotes (one at most): blanks, an optional
\* minus, digits, and then anything that does not continue the number
DigitsValue(s, first, last) ==
    LET RECURSIVE value(_)
        value(i) == IF i < first THEN 0 ELSE value(i - 1) * 10 + DigitValue(s[i])
    IN value(last)

Denoted(s) ==
    { IF s[a + 1] = "-" THEN 0 - DigitsValue(s, a + 2, b) ELSE DigitsValue(s, a + 1, b) :
        <<a, b>> \in { ab \in (0..Len(s)) \X (1..Len(s)) :
            LET first == IF ab[1] < Len(s) /\ s[ab[1] + 1] = "-" THEN ab[1] + 2 ELSE ab[1] + 1 IN
            /\ \A i \in 1..ab[1] : s[i] = " "
            /\ first <= ab[2]
            /\ \A i \in first..ab[2] : IsDigit(s[i])
            /\ ab[2] < Len(s) => ~IsDigit(s[ab[2] + 1]) } }

\* C14: parseLimit always returns a value in [MIN_LIMIT, MAX_LIMIT]: the
\* default for an absent or invalid parameter, otherwise the integer the
\* parameter denotes, clamped.
C14_LimitClamped ==
    (fnRet # <<>>) =>
        LET p == fnArg.limitParam
            r == fnRet[1] IN
        /\ r \in MIN_LIMIT..MAX_LIMIT
        /\ (p = Null \/ ~fnArg.valid) => r = DEFAULT_LIMIT
        /\ (p # Null /\ fnArg.valid) =>
              /\ \A n \in Denoted(Val(p)) :
                    r = (IF n < MIN_LIMIT THEN MIN_LIMIT ELSE IF n > MAX_LIMIT THEN MAX_LIMIT ELSE n)
              /\ Denoted(Val(p)) = {} => r = DEFAULT_LIMIT

C14_Witness ==
    /\ fnRet = <<MAX_LIMIT>>
    /\ fnArg.limitParam = Some(<<"9", "9", "9">>)

(***************************************************************************)
(* marketClustering: buildClusters                                         *)
(***************************************************************************)
MaxSnapshots == 3     \* longest snapshot list clustered

BASE_THRESHOLD == 78  \* similarities and thresholds are in hundredths

\* marketMatching.normalizeMarketTitle, as the specification describes it:
\* lower-cased, currency symbols and question marks stripped, other
\* punctuation collapsed to single spaces, split at white space
UpperCase == <<"A", "B", "C", "D", "E", "F", "G", "H", "I", "J", "K", "L", "M", "N", "O", "P", "Q", "R", "S", "T", "U", "V", "W", "X", "Y", "Z">>
LowerCase == <<"a", "b", "c", "d", "e", "f", "g", "h", "i", "j", "k", "l", "m", "n", "o", "p", "q", "r", "s", "t", "u", "v", "w", "x", "y", "z">>
ToLower(ch) ==
    IF \E k \in 1..Len(UpperCase) : UpperCase[k] = ch
    THEN LowerCase[CHOOSE k \in 1..Len(UpperCase) : UpperCase[k] = ch]
    ELSE ch
IsAlnum(ch) == IsDigit(ch) \/ \E k \in 1..Len(LowerCase) : LowerCase[k] = ch

RECURSIVE SplitTokens(_, _, _)
SplitTokens(chars, token, done) ==
    IF chars = <<>> THEN (IF token = <<>> THEN done ELSE Append(done, token))
    ELSE LET ch == ToLower(Head(chars)) IN
         IF ch \in {"$", "?"} THEN SplitTokens(Tail(chars), token, done)
         ELSE IF IsAlnum(ch) THEN SplitTokens(Tail(chars), Append(token, ch), done)
         ELSE SplitTokens(Tail(chars), <<>>, IF token = <<>> THEN done ELSE Append(done, token))

normalizeMarketTitle(chars) == SplitTokens(chars, <<>>, <<>>)

\* the three titles of the matching tests
BtcTitle == "Will BTC hit $100K by 2025?"
BitcoinTitle == "Will Bitcoin hit 100k in 2025?"
RatesTitle == "Will the US raise rates this quarter?"

Chars(s) == [i \in 1..Len(s) |-> SubSeq(s, i, i)]

TitleOf(text) ==
    [len |-> Len(text), tokens |-> normalizeMarketTitle(Chars(text)), fallback |-> 0,
     text |-> text]

ExampleTitles == << TitleOf(BtcTitle), TitleOf(BitcoinTitle), TitleOf(RatesTitle) >>

\* The titles tried.  Of a title the clusterer uses: its text and its length
\* in characters, the tokens normalizeMarketTitle(title, true) leaves, and
\* the first 30 characters of normalizeMarketTitle(title) when no token is
\* left (0: the empty string).
ShapeOf(text, tokens) ==
    [len |-> Len(text), tokens |-> tokens, fallback |-> 0, text |-> text]

TitleShapes ==
    << ShapeOf("Will Bitcoin close above 90k in January?", <<1, 2, 3, 4>>),
       ShapeOf("Will Congress pass a Bitcoin reserve bill before the recess?", <<9, 1, 2, 3, 4>>),
       ShapeOf("Will the average surface reading at the northern station stay above the seasonal norm for at least nine of the 10 days that follow the spring equinox?",
               <<5, 6, 7, 8, 9, 1, 2, 3, 4>>),
       ShapeOf("Will the Senate confirm the nominee now?", <<5, 6, 7, 8>>),
       ShapeOf("??", <<>>),
       ShapeOf("Will the Fed cut its rate in September??", <<1, 2, 3, 4>>) >>
Titles == DOMAIN TitleShapes

\* titles of the lengths on both sides of each step of the threshold table,
\* all with the same four tokens
TitleLengths == <<1, 44, 45, 46, 47, 80, 81, 114, 115, 139, 140, 141, 200>>

RECURSIVE Pad(_)
Pad(n) ==
    IF n = 0 THEN ""
    ELSE IF n % 2 = 0 THEN Pad(n \div 2) \o Pad(n \div 2)
    ELSE "x" \o Pad(n - 1)

LengthTitles == [k \in 1..Len(TitleLengths) |-> ShapeOf(Pad(TitleLengths[k]), <<1, 2, 3, 4>>)]

TitleTable == TitleShapes \o ExampleTitles \o LengthTitles
ExampleIds == {Len(TitleShapes) + k : k \in 1..Len(ExampleTitles)}
LengthIds == {Len(TitleShapes) + Len(ExampleTitles) + k : k \in 1..Len(LengthTitles)}

ClusterPlatforms == {"kalshi", "opinion"}
SimValues == {85, 90}

\* mutant: the base threshold for every length
getAdaptiveThreshold_Flat(titleA, titleB) == BASE_THRESHOLD

getAdaptiveThreshold(titleA, titleB) ==
    LET twice == TitleTable[titleA].len + TitleTable[titleB].len IN  \* 2 * lengthScore
    IF twice <= 2 * 45 THEN 88
    ELSE IF twice <= 2 * 80 THEN 82
    ELSE IF twice >= 2 * 140 THEN 72
    ELSE BASE_THRESHOLD

\* tokens.slice(from, to) with from, to >= 0 counted from 0
Slice(s, from, to) == SubSeq(s, from + 1, Min(to, Len(s)))

\* a Set built by add(): insertion order, no duplicates
AddKey(keys, k) == IF \E i \in 1..Len(keys) : keys[i] = k THEN keys ELSE Append(keys, k)

\* a key is the sequence of tokens joined by "-", or the fallback string
buildBucketKeys(title) ==
    LET tokens == TitleTable[title].tokens
        n == Len(tokens) IN
    IF n = 0
    THEN IF TitleTable[title].fallback # 0 THEN << <<"raw", TitleTable[title].fallback>> >> ELSE <<>>
    ELSE LET k1 == AddKey(<<>>, Slice(tokens, 0, 4))
             k2 == IF n > 4 THEN AddKey(k1, SubSeq(tokens, Max(n - 4, 0) + 1, n)) ELSE k1
             k3 == IF n > 8 THEN AddKey(k2, Slice(tokens, 2, 6)) ELSE k2
         IN SelectSeq(k3, LAMBDA k : k # <<>>)

\* bucketMap after marketData.forEach: the keys in insertion order, each
\* with the indices pushed to it
RECURSIVE AddToBuckets(_, _, _)
AddToBuckets(buckets, keys, index) ==
    IF keys = <<>> THEN buckets
    ELSE LET key == Head(keys)
             at == {b \in 1..Len(buckets) : buckets[b].key = key}
             next == IF at = {}
                     THEN Append(buckets, [key |-> key, indices |-> <<index>>])
                     ELSE LET b == CHOOSE b \in at : TRUE IN
                          [buckets EXCEPT ![b].indices = Append(@, index)]
         IN AddToBuckets(next, Tail(keys), index)

RECURSIVE BucketMap(_, _)
BucketMap(snapshots, upTo) ==
    IF upTo = 0 THEN <<>>
    ELSE AddToBuckets(BucketMap(snapshots, upTo - 1), buildBucketKeys(snapshots[upTo].title), upTo)

\* findRoot(index) with path halving: the new parent array and the root
RECURSIVE findRoot(_, _)
findRoot(parent, current) ==
    IF parent[current] = current THEN [parent |-> parent, root |-> current]
    ELSE LET halved == [parent EXCEPT ![current] = parent[parent[current]]] IN
         findRoot(halved, halved[current])

union(parent, a, b) ==
    LET ra == findRoot(parent, a)
        rb == findRoot(ra.parent, b) IN
    IF ra.root # rb.root THEN [rb.parent EXCEPT ![rb.root] = ra.root] ELSE rb.parent

\* the (left, right) pairs of one bucket in the order of the i, j loops
RECURSIVE BucketPairs(_, _, _)
BucketPairs(indices, i, j) ==
    IF i > Len(indices) THEN <<>>
    ELSE IF j > Len(indices) THEN BucketPairs(indices, i + 1, i + 2)
    ELSE << <<indices[i], indices[j]>> >> \o BucketPairs(indices, i, j + 1)

RECURSIVE AllBucketPairs(_)
AllBucketPairs(buckets) ==
    IF buckets = <<>> THEN <<>>
    ELSE BucketPairs(Head(buckets).indices, 1, 2) \o AllBucketPairs(Tail(buckets))

pairKey(left, right) == IF left < right THEN <<left, right>> ELSE <<right, left>>

\* calculateMarketSimilarity(marketData[left], marketData[right]): the value
\* given with the input for the pair
SimDefault == 90
calculateMarketSimilarity(sim, left, right) ==
    IF <<left, right>> \in DOMAIN sim THEN sim[<<left, right>>] ELSE SimDefault

\* mutant: snapshots of one platform are compared as well
ComparePair_SamePlatform(snapshots, sim, uf, left, right) ==
    IF pairKey(left, right) \in uf.seenPairs THEN uf
    ELSE LET similarity == calculateMarketSimilarity(sim, left, right)
             threshold == getAdaptiveThreshold(snapshots[left].title, snapshots[right].title)
             seen == [uf EXCEPT !.seenPairs = @ \cup {pairKey(left, right)},
                                !.compared = Append(@, <<left, right>>)]
         IN IF similarity >= threshold
            THEN [seen EXCEPT !.parent = union(uf.parent, left, right),
                              !.unions = Append(@, <<left, right>>)]
            ELSE seen

\* mutant: every compared pair is merged, whatever its score
ComparePair_NoThreshold(snapshots, sim, uf, left, right) ==
    IF snapshots[left].platform = snapshots[right].platform THEN uf
    ELSE IF pairKey(left, right) \in uf.seenPairs THEN uf
    ELSE [uf EXCEPT !.seenPairs = @ \cup {pairKey(left, right)},
                    !.compared = Append(@, <<left, right>>),
                    !.parent = union(uf.parent, left, right),
                    !.unions = Append(@, <<left, right>>)]

\* the body of the j loop; compared and unions record the calls of
\* calculateMarketSimilarity and of union
ComparePair(snapshots, sim, uf, left, right) ==
    IF snapshots[left].platform = snapshots[right].platform THEN uf
    ELSE IF pairKey(left, right) \in uf.seenPairs THEN uf
    ELSE LET similarity == calculateMarketSimilarity(sim, left, right)
             threshold == getAdaptiveThreshold(snapshots[left].title, snapshots[right].title)
             seen == [uf EXCEPT !.seenPairs = @ \cup {pairKey(left, right)},
                                !.compared = Append(@, <<left, right>>)]
         IN IF similarity >= threshold
            THEN [seen EXCEPT !.parent = union(uf.parent, left, right),
                              !.unions = Append(@, <<left, right>>)]
            ELSE seen

RECURSIVE ComparePairs(_, _, _, _)
ComparePairs(snapshots, sim, uf, pairs) ==
    IF pairs = <<>> THEN uf
    ELSE ComparePairs(snapshots, sim,
                      ComparePair(snapshots, sim, uf, Head(pairs)[1], Head(pairs)[2]),
                      Tail(pairs))

\* the union-find state after the loops over bucketMap.values()
UnionFind(snapshots, sim) ==
    ComparePairs(snapshots, sim,
                 [parent |-> [i \in 1..Len(snapshots) |-> i], seenPairs |-> {},
                  compared |-> <<>>, unions |-> <<>>],
                 AllBucketPairs(BucketMap(snapshots, Len(snapshots))))

\* clustersByRoot after clusterMarkets.forEach: the roots in insertion
\* order, each with its markets (index, platform, title) in input order
RECURSIVE ClustersByRoot(_, _, _, _)
ClustersByRoot(snapshots, parent, index, groups) ==
    IF index > Len(snapshots) THEN groups
    ELSE LET fr == findRoot(parent, index)
             market == [idx |-> index, platform |-> snapshots[index].platform,
                        title |-> snapshots[index].title]
             at == {g \in 1..Len(groups) : groups[g].root = fr.root}
             next == IF at = {}
                     THEN Append(groups, [root |-> fr.root, markets |-> <<market>>])
                     ELSE LET g == CHOOSE g \in at : TRUE IN
                          [groups EXCEPT ![g].markets = Append(@, market)]
         IN ClustersByRoot(snapshots, fr.parent, index + 1, next)

\* a.platform.localeCompare(b.platform) < 0: the names in alphabetical order
PlatformsSorted == <<"kalshi", "opinion", "polymarket", "predictfun">>
PlatformRank(p) == CHOOSE r \in 1..Len(PlatformsSorted) : PlatformsSorted[r] = p
PlatformBefore(a, b) == PlatformRank(a.platform) < PlatformRank(b.platform)

\* mutant: the number of markets does not break a tie
ClusterBefore_CountOnly(a, b) == a.platformCount > b.platformCount

\* b.platformCount - a.platformCount || b.markets.length - a.markets.length < 0
ClusterBefore(a, b) ==
    \/ a.platformCount > b.platformCount
    \/ a.platformCount = b.platformCount /\ Len(a.markets) > Len(b.markets)

SortBefore(by, a, b) == IF by = "platform" THEN PlatformBefore(a, b) ELSE ClusterBefore(a, b)

\* Array.prototype.sort is stable: x goes in front of the first element it
\* must precede
RECURSIVE InsertSorted(_, _, _)
InsertSorted(sorted, x, by) ==
    IF sorted = <<>> THEN <<x>>
    ELSE IF SortBefore(by, x, Head(sorted)) THEN <<x>> \o sorted
    ELSE <<Head(sorted)>> \o InsertSorted(Tail(sorted), x, by)

RECURSIVE StableSort(_, _)
StableSort(s, by) ==
    IF Len(s) = 0 THEN <<>>
    ELSE InsertSorted(StableSort(SubSeq(s, 1, Len(s) - 1), by), s[Len(s)], by)

MarketThemes ==
    <<"trump", "politics", "crypto", "macro", "tech", "sports", "entertainment",
      "climate", "health", "other">>

\* marketThemes[t].keywords, in declared order
ThemeKeywords ==
    << <<"trump", "donald", "maga">>,
       <<"election", "president", "whitehouse", "white house", "congress", "senate",
         "house", "biden", "democrat", "republican", "gop", "campaign", "governor",
         "primary">>,
       <<"bitcoin", "btc", "ethereum", "eth", "solana", "doge", "crypto", "token",
         "defi", "stablecoin">>,
       <<"fed", "rate", "inflation", "cpi", "gdp", "recession", "jobs",
         "unemployment", "economy">>,
       <<"ai", "openai", "chatgpt", "nvidia", "apple", "tesla", "microsoft", "google",
         "meta", "amazon", "chip">>,
       <<"nfl", "nba", "mlb", "nhl", "soccer", "football", "fifa", "uefa", "world cup",
         "super bowl", "olympic", "championship">>,
       <<"oscar", "grammy", "emmy", "movie", "film", "music", "album", "tour",
         "box office">>,
       <<"hurricane", "climate", "weather", "temperature", "rain", "snow", "el nino",
         "la nina">>,
       <<"covid", "flu", "vaccine", "health", "disease", "cancer">>,
       <<>> >>

\* a title is a string; CharAt(s, i) is its i-th character
CharAt(s, i) == SubSeq(s, i, i)

\* halves rather than characters, so that long titles stay shallow
RECURSIVE toLowerCase(_)
toLowerCase(s) ==
    IF Len(s) = 0 THEN ""
    ELSE IF Len(s) = 1 THEN ToLower(s)
    ELSE LET half == Len(s) \div 2 IN
         toLowerCase(SubSeq(s, 1, half)) \o toLowerCase(SubSeq(s, half + 1, Len(s)))

\* title.includes(part)
includes(title, part) ==
    \E i \in 1..(Len(title) - Len(part) + 1) : SubSeq(title, i, i + Len(part) - 1) = part

\* lower.split(/[^a-z0-9]+/).filter(Boolean): the maximal runs of [a-z0-9],
\* from position from on
RECURSIVE SplitAlnum(_, _, _)
SplitAlnum(s, from, done) ==
    LET alnum == {i \in from..Len(s) : IsAlnum(CharAt(s, i))} IN
    IF alnum = {} THEN done
    ELSE LET first == CHOOSE i \in alnum : \A j \in alnum : i <= j
             ends == {i \in alnum : i >= first /\ (i + 1) \notin alnum}
             last == CHOOSE i \in ends : \A j \in ends : i <= j IN
         SplitAlnum(s, last + 1, Append(done, SubSeq(s, first, last)))

tokenizeTitle(title) == SplitAlnum(toLowerCase(title), 1, <<>>)

\* mutant: every keyword is looked for anywhere in the title
matchesKeyword_Substring(title, tokens, keyword) ==
    includes(title, toLowerCase(keyword))

\* mutant: every keyword is looked up among the tokens
matchesKeyword_TokensOnly(title, tokens, keyword) ==
    toLowerCase(keyword) \in tokens

\* tokens is the set of the title's tokens
matchesKeyword(title, tokens, keyword) ==
    LET normalized == toLowerCase(keyword) IN
    IF includes(normalized, " ") THEN includes(title, normalized)
    ELSE normalized \in tokens

\* theme.keywords.some(...)
SomeKeyword(normalizedTitle, tokens, t) ==
    \E k \in 1..Len(ThemeKeywords[t]) :
        matchesKeyword(normalizedTitle, tokens, ThemeKeywords[t][k])

\* mutant: the declared order is walked from its end
ThemeLoop_LastWins(normalizedTitle, tokens, t) ==
    LET hit == {u \in 1..Len(MarketThemes) :
                   MarketThemes[u] # "other" /\ SomeKeyword(normalizedTitle, tokens, u)} IN
    IF hit = {} THEN "other"
    ELSE MarketThemes[CHOOSE u \in hit : \A v \in hit : v <= u]

\* for (const theme of marketThemes), from the t-th theme on
RECURSIVE ThemeLoop(_, _, _)
ThemeLoop(normalizedTitle, tokens, t) ==
    IF t > Len(MarketThemes) THEN "other"
    ELSE IF MarketThemes[t] = "other" THEN ThemeLoop(normalizedTitle, tokens, t + 1)
    ELSE IF SomeKeyword(normalizedTitle, tokens, t) THEN MarketThemes[t]
    ELSE ThemeLoop(normalizedTitle, tokens, t + 1)

classifyMarketTheme(title) ==
    ThemeLoop(toLowerCase(title), Range(tokenizeTitle(title)), 1)

\* classifyMarketTheme is pure: its value for each title tried, computed once
ThemeOfTitle == [t \in DOMAIN TitleTable |-> classifyMarketTheme(TitleTable[t].text)]

\* mutant: a later market with an equally long title replaces the best
RECURSIVE Primary_LaterWins(_, _, _)
Primary_LaterWins(markets, i, best) ==
    IF i > Len(markets) THEN best
    ELSE Primary_LaterWins(markets, i + 1,
                           IF TitleTable[markets[i].title].len >= TitleTable[best.title].len
                           THEN markets[i] ELSE best)

\* markets.reduce(...): the first market with the longest title
RECURSIVE Primary(_, _, _)
Primary(markets, i, best) ==
    IF i > Len(markets) THEN best
    ELSE Primary(markets, i + 1,
                 IF TitleTable[markets[i].title].len > TitleTable[best.title].len
                 THEN markets[i] ELSE best)

\* classifyMarketTheme is called with primary.marketTitle and a second
\* argument, [primary.category, primary.description, ...(primary.tags ?? [])];
\* the function declares the one parameter title, so the second argument is
\* evaluated and never read
MakeCluster(markets, index) ==
    LET primary == Primary(markets, 2, markets[1]) IN
    [id |-> <<primary.title, primary.idx, index>>,
     title |-> primary.title,
     themeKey |-> ThemeOfTitle[primary.title],
     platformCount |-> Cardinality({markets[i].platform : i \in 1..Len(markets)}),
     markets |-> StableSort(markets, "platform")]

RECURSIVE SumMarkets(_)
SumMarkets(clusters) ==
    IF clusters = <<>> THEN 0 ELSE Len(Head(clusters).markets) + SumMarkets(Tail(clusters))

\* mutant: a cluster of a theme without a bucket is left out
ThemeGroups_NoOther(clusters) ==
    [t \in 1..Len(MarketThemes) |->
        LET themeClusters ==
                SelectSeq(clusters, LAMBDA c :
                    c.themeKey = MarketThemes[t] /\ MarketThemes[t] # "other") IN
        [themeKey |-> MarketThemes[t],
         totalClusters |-> Len(themeClusters),
         totalMarkets |-> SumMarkets(themeClusters),
         clusters |-> themeClusters]]

\* themeBuckets filled in cluster order, then marketThemes.map
ThemeGroups(clusters) ==
    [t \in 1..Len(MarketThemes) |->
        LET declared(key) == \E u \in 1..Len(MarketThemes) : MarketThemes[u] = key
            bucketOf(c) == IF declared(c.themeKey) THEN c.themeKey ELSE "other"
            themeClusters == SelectSeq(clusters, LAMBDA c : bucketOf(c) = MarketThemes[t]) IN
        [themeKey |-> MarketThemes[t],
         totalClusters |-> Len(themeClusters),
         totalMarkets |-> SumMarkets(themeClusters),
         clusters |-> themeClusters]]

\* mutant: the groups come out in map order instead of being made clusters
\* of their own (the snapshots without a bucket key are lost)
Materialize_OnlyBucketed(snapshots, uf) ==
    LET groups == ClustersByRoot(snapshots, uf.parent, 1, <<>>)
        kept == SelectSeq(groups, LAMBDA g :
                    \E i \in 1..Len(g.markets) : buildBucketKeys(g.markets[i].title) # <<>>)
        made == [g \in 1..Len(kept) |-> MakeCluster(kept[g].markets, g - 1)] IN
    StableSort(made, "cluster")

\* clustersByRoot -> clusters, then clusters.sort(...)
Materialize(snapshots, uf) ==
    LET groups == ClustersByRoot(snapshots, uf.parent, 1, <<>>)
        made == [g \in 1..Len(groups) |-> MakeCluster(groups[g].markets, g - 1)] IN
    StableSort(made, "cluster")

\* the value returned, with the calls made on the way
buildClusters(snapshots, sim) ==
    IF Len(snapshots) = 0
    THEN [clusters |-> <<>>, themes |-> <<>>, compared |-> <<>>, unions |-> <<>>]
    ELSE LET uf == UnionFind(snapshots, sim)
             clusters == Materialize(snapshots, uf) IN
         [clusters |-> clusters, themes |-> ThemeGroups(clusters),
          compared |-> uf.compared, unions |-> uf.unions]

SnapshotChoices == [platform : ClusterPlatforms, title : Titles]

KeysOf(snapshot) == Range(buildBucketKeys(snapshot.title))

\* the pairs whose similarity can matter: different platforms, a common key
SimQuestions(snapshots) ==
    {<<i, j>> \in (1..Len(snapshots)) \X (1..Len(snapshots)) :
        /\ i < j
        /\ snapshots[i].platform # snapshots[j].platform
        /\ KeysOf(snapshots[i]) \cap KeysOf(snapshots[j]) # {}}

InitCluster ==
    /\ InitAgg
    /\ InitPagerIdle
    /\ InitRetryIdle
    /\ \E n \in 0..MaxSnapshots : \E snapshots \in [1..n -> SnapshotChoices] :
         \E sim \in [SimQuestions(snapshots) -> SimValues] :
            fnArg = [fn |-> "buildClusters", snapshots |-> snapshots, sim |-> sim]
    /\ fnRet = <<>>

BuildClusters ==
    /\ fnArg.fn = "buildClusters"
    /\ fnRet = <<>>
    /\ fnRet' = <<buildClusters(fnArg.snapshots, fnArg.sim)>>
    /\ UNCHANGED <<aggVars, retryVars, pager, fnArg>>

NextCluster == BuildClusters

SpecCluster == InitCluster /\ [][NextCluster]_vars

Returned == fnRet # <<>>
Result == fnRet[1]
Input == fnArg.snapshots

\* the members of a cluster, as positions in the input list
MembersOf(cluster) == {cluster.markets[i].idx : i \in 1..Len(cluster.markets)}

\* C15: the clusters partition the input: the member counts add up to the
\* number of snapshots, every snapshot is in exactly one cluster, with its
\* own platform and title, and no cluster is empty.
C15_ClustersPartitionInput ==
    Returned =>
        /\ SumMarkets(Result.clusters) = Len(Input)
        /\ \A i \in 1..Len(Input) :
              Cardinality({c \in 1..Len(Result.clusters) : i \in MembersOf(Result.clusters[c])}) = 1
        /\ \A c \in 1..Len(Result.clusters) :
              /\ Len(Result.clusters[c].markets) > 0
              /\ Cardinality(MembersOf(Result.clusters[c])) = Len(Result.clusters[c].markets)
              /\ \A m \in 1..Len(Result.clusters[c].markets) :
                    LET market == Result.clusters[c].markets[m] IN
                    /\ market.idx \in 1..Len(Input)
                    /\ market.platform = Input[market.idx].platform
                    /\ market.title = Input[market.idx].title

\* a run with a merged pair, a snapshot nothing matched, and a snapshot
\* without any bucket key
C15_Witness ==
    /\ Returned
    /\ Len(Input) = 3
    /\ Len(Result.clusters) = 2
    /\ \E i \in 1..3 : buildBucketKeys(Input[i].title) = <<>>
    /\ \E c \in 1..2 : Len(Result.clusters[c].markets) = 2

SamePlatform(pair) == Input[pair[1]].platform = Input[pair[2]].platform

\* C16: neither calculateMarketSimilarity nor union is ever called on two
\* snapshots of the same platform, also when they share a bucket key.
C16_SameSourceNeverPaired ==
    Returned =>
        /\ \A k \in 1..Len(Result.compared) : ~SamePlatform(Result.compared[k])
        /\ \A k \in 1..Len(Result.unions) : ~SamePlatform(Result.unions[k])

\* two snapshots of one platform share a bucket key, and pairs were scored
C16_Witness ==
    /\ Returned
    /\ Result.compared # <<>>
    /\ \E i \in 1..Len(Input) : \E j \in 1..Len(Input) :
          /\ i < j
          /\ Input[i].platform = Input[j].platform
          /\ KeysOf(Input[i]) \cap KeysOf(Input[j]) # {}

\* the match relation: a candidate pair scoring at or above its threshold
Matches(i, j) ==
    LET lo == Min(i, j)
        hi == Max(i, j) IN
    /\ i # j
    /\ <<lo, hi>> \in DOMAIN fnArg.sim     \* SimQuestions(Input), by InitCluster
    /\ fnArg.sim[<<lo, hi>>] >= getAdaptiveThreshold(Input[lo].title, Input[hi].title)

\* the snapshots linked to i by a chain of at most n matches
RECURSIVE Chained(_, _)
Chained(i, n) ==
    IF n = 0 THEN {i}
    ELSE LET near == Chained(i, n - 1) IN
         near \cup {j \in 1..Len(Input) : \E k \in near : Matches(k, j)}

SameCluster(i, j) ==
    \E c \in 1..Len(Result.clusters) :
        i \in MembersOf(Result.clusters[c]) /\ j \in MembersOf(Result.clusters[c])

\* C17: the pairs scored are the candidate pairs (different platforms, a
\* common bucket key), and two snapshots are in the same cluster exactly
\* when a chain of candidate pairs scoring at or above their adaptive
\* threshold links them.
C17_ClustersAreComponents ==
    Returned =>
        /\ Range(Result.compared) = SimQuestions(Input)
        /\ \A i \in 1..Len(Input) : \A j \in 1..Len(Input) :
              SameCluster(i, j) <=> j \in Chained(i, Len(Input))

\* three snapshots in one cluster, two of them of the same platform (joined
\* only through the third)
C17_Witness ==
    /\ Returned
    /\ Len(Input) = 3
    /\ Len(Result.clusters) = 1
    /\ \E i \in 1..3 : \E j \in 1..3 : i # j /\ Input[i].platform = Input[j].platform

(***************************************************************************)
(* buildClusters on the three snapshots of the matching tests              *)
(***************************************************************************)
ExampleSnapshots ==
    << [platform |-> "opinion",    title |-> Len(TitleShapes) + 1],
       [platform |-> "polymarket", title |-> Len(TitleShapes) + 2],
       [platform |-> "kalshi",     title |-> Len(TitleShapes) + 3] >>

\* calculateMarketSimilarity on the two near-duplicates is above 0.7 (the
\* test's bound); on the other pairs it is anything
HighSimilarities == 71..100
OtherSimilarities == {0, 50, 100}

InitExample ==
    /\ InitAgg
    /\ InitPagerIdle
    /\ InitRetryIdle
    /\ \E sim \in [{<<1, 2>>, <<1, 3>>, <<2, 3>>} -> HighSimilarities \cup OtherSimilarities] :
          /\ sim[<<1, 2>>] \in HighSimilarities
          /\ sim[<<1, 3>>] \in OtherSimilarities
          /\ sim[<<2, 3>>] \in OtherSimilarities
          /\ fnArg = [fn |-> "buildClusters", snapshots |-> ExampleSnapshots, sim |-> sim]
    /\ fnRet = <<>>

SpecExample == InitExample /\ [][NextCluster]_vars

\* C19 (as claimed): the two near-duplicate titles end in one cluster and
\* the unrelated title alone: one 2-member cluster and one singleton.
C19_NearDuplicatesClustered ==
    Returned =>
        /\ Len(Result.clusters) = 2
        /\ \E c \in 1..2 : MembersOf(Result.clusters[c]) = {1, 2}
        /\ \E c \in 1..2 : MembersOf(Result.clusters[c]) = {3}

RECURSIVE SumField(_, _)
SumField(groups, field) ==
    IF Len(groups) = 0 THEN 0
    ELSE groups[Len(groups)][field] + SumField(SubSeq(groups, 1, Len(groups) - 1), field)

\* the groups in which a cluster (by its id) appears
GroupsHolding(cluster) ==
    {g \in 1..Len(Result.themes) :
        \E k \in 1..Len(Result.themes[g].clusters) : Result.themes[g].clusters[k].id = cluster.id}

\* C20: for a non-empty input there is one theme group per declared theme,
\* every cluster is in exactly one group, the group of its themeKey, and
\* the groups' totalClusters and totalMarkets add up to the number of
\* clusters and of input snapshots.
C20_OneThemeGroupPerCluster ==
    (Returned /\ Len(Input) > 0) =>
        /\ Len(Result.themes) = Len(MarketThemes)
        /\ \A g \in 1..Len(MarketThemes) :
              /\ Result.themes[g].themeKey = MarketThemes[g]
              /\ Result.themes[g].totalClusters = Len(Result.themes[g].clusters)
              /\ Result.themes[g].totalMarkets = SumMarkets(Result.themes[g].clusters)
        /\ \A c \in 1..Len(Result.clusters) :
              /\ Cardinality(GroupsHolding(Result.clusters[c])) = 1
              /\ \A g \in GroupsHolding(Result.clusters[c]) :
                    /\ Result.themes[g].themeKey = Result.clusters[c].themeKey
                    /\ \E k \in 1..Len(Result.themes[g].clusters) :
                          Result.themes[g].clusters[k] = Result.clusters[c]
        /\ SumField(Result.themes, "totalClusters") = Len(Result.clusters)
        /\ SumField(Result.themes, "totalMarkets") = Len(Input)

\* clusters in three different groups, "other" among them
C20_Witness ==
    /\ Returned
    /\ Len(Result.clusters) = 3
    /\ Cardinality({Result.clusters[c].themeKey : c \in 1..3}) = 3
    /\ \E c \in 1..3 : Result.clusters[c].themeKey = "other"

\* ---------------------------------------------------------------------
\* classifyMarketTheme on its own
\* ---------------------------------------------------------------------

MaxWords == 2         \* most words joined into one title

\* words that are keywords, parts of keywords, contain keywords, or are
\* punctuation, and what can stand between two words
TitleWords == {"Trump", "house", "white", "el", "nino", "model", "AI", "said", "chain", "rates", "BTC", "?"}
Separators == {" ", "-", ""}

RECURSIVE TitlesOf(_)
TitlesOf(n) ==
    IF n = 0 THEN {""}
    ELSE IF n = 1 THEN TitleWords
    ELSE {t \o sep \o w : t \in TitlesOf(n - 1), sep \in Separators, w \in TitleWords}

\* every declared keyword, as the whole title
DeclaredKeywords ==
    UNION {Range(ThemeKeywords[t]) : t \in 1..Len(ThemeKeywords)}

ThemeTitles == DeclaredKeywords \cup UNION {TitlesOf(n) : n \in 0..MaxWords}

InitTheme ==
    /\ InitAgg
    /\ InitPagerIdle
    /\ InitRetryIdle
    /\ \E title \in ThemeTitles : fnArg = [fn |-> "classifyMarketTheme", title |-> title]
    /\ fnRet = <<>>

ClassifyMarketTheme ==
    /\ fnArg.fn = "classifyMarketTheme"
    /\ fnRet = <<>>
    /\ fnRet' = <<classifyMarketTheme(fnArg.title)>>
    /\ UNCHANGED <<aggVars, retryVars, pager, fnArg>>

NextTheme == ClassifyMarketTheme

SpecTheme == InitTheme /\ [][NextTheme]_vars

\* A keyword hit, read off the characters of the title: a keyword with a
\* space in it occurs anywhere in the lower-cased title; any other keyword
\* occurs there with no letter or digit on either side.
Boundary(s, i) == i < 1 \/ i > Len(s) \/ ~IsAlnum(CharAt(s, i))
OccursAsWord(s, word) ==
    \E i \in 1..(Len(s) - Len(word) + 1) :
        /\ SubSeq(s, i, i + Len(word) - 1) = word
        /\ Boundary(s, i - 1)
        /\ Boundary(s, i + Len(word))
KeywordHit(title, keyword) ==
    IF \E i \in 1..Len(keyword) : CharAt(keyword, i) = " "
    THEN includes(toLowerCase(title), keyword)
    ELSE OccursAsWord(toLowerCase(title), keyword)
ThemeHit(title, t) ==
    \E k \in 1..Len(ThemeKeywords[t]) : KeywordHit(title, ThemeKeywords[t][k])

\* C21: classifyMarketTheme returns a declared theme key for every title;
\* the key is that of the first declared theme with a keyword hit, and it is
\* "other" exactly when no keyword of any theme hits.
C21_FirstHitWins ==
    (fnArg.fn = "classifyMarketTheme" /\ Returned) =>
        LET key == fnRet[1] IN
        /\ \E t \in 1..Len(MarketThemes) : MarketThemes[t] = key
        /\ key = "other" <=> \A t \in 1..Len(MarketThemes) : ~ThemeHit(fnArg.title, t)
        /\ \A t \in 1..Len(MarketThemes) :
              (ThemeHit(fnArg.title, t) /\ \A u \in 1..(t - 1) : ~ThemeHit(fnArg.title, u))
                  => key = MarketThemes[t]

\* a title with hits for two themes, classified to the earlier one
C21_Witness ==
    /\ fnArg.fn = "classifyMarketTheme" /\ Returned
    /\ fnArg.title = "BTC-Trump"
    /\ ThemeHit(fnArg.title, 1) /\ ThemeHit(fnArg.title, 3)
    /\ fnRet[1] = "trump"

\* C22: a title that is nothing but a declared keyword is classified to the
\* theme declaring that keyword, and "other" declares no keyword.
C22_KeywordsReachOwnTheme ==
    /\ \A t \in 1..Len(MarketThemes) : MarketThemes[t] = "other" => ThemeKeywords[t] = <<>>
    /\ Len(ThemeKeywords) = Len(MarketThemes)
    /\ (fnArg.fn = "classifyMarketTheme" /\ Returned) =>
          \A t \in 1..Len(MarketThemes) :
              fnArg.title \in Range(ThemeKeywords[t]) => fnRet[1] = MarketThemes[t]

\* a declared keyword of two words, as the whole title
C22_Witness ==
    /\ fnArg.fn = "classifyMarketTheme" /\ Returned
    /\ fnArg.title = "world cup"
    /\ fnRet[1] = "sports"

\* ---------------------------------------------------------------------
\* Source adapters (lib/marketSources): normalizePrice and the snapshot lists
\* ---------------------------------------------------------------------

MaxRawLen == 3        \* longest raw price string tried
MaxRecords == 2       \* most records in one upstream payload

RECURSIVE Pow10(_)
Pow10(n) == IF n = 0 THEN 1 ELSE 10 * Pow10(n - 1)

\* A finite number is held as a whole count of 1/One, fine enough for every
\* string tried and its hundredth.
One == Pow10(MaxRawLen + 1)
Finite(v) == [kind |-> "finite", v |-> v]
NotFinite == {[kind |-> k, v |-> 0] : k \in {"NaN", "Infinity", "-Infinity"}}
NotANumber == [kind |-> "NaN", v |-> 0]

\* characters of a raw price string
PriceChars == {"0", "1", "5", ".", "-", "a", " "}

RECURSIVE PriceStrings(_)
PriceStrings(n) ==
    IF n = 0 THEN {""}
    ELSE {s \o ch : s \in PriceStrings(n - 1), ch \in PriceChars}

\* the first position at or after i that holds no digit
RECURSIVE DigitsEnd(_, _)
DigitsEnd(s, i) ==
    IF i <= Len(s) /\ IsDigit(CharAt(s, i)) THEN DigitsEnd(s, i + 1) ELSE i

RECURSIVE BlanksEnd(_, _)
BlanksEnd(s, i) ==
    IF i <= Len(s) /\ CharAt(s, i) = " " THEN BlanksEnd(s, i + 1) ELSE i

\* the digits s[first..last] read in base 10
RECURSIVE DecimalOf(_, _, _)
DecimalOf(s, first, last) ==
    IF last < first THEN 0
    ELSE 10 * DecimalOf(s, first, last - 1) + DigitValue(CharAt(s, last))

\* Number.parseFloat(s) for strings without exponent: leading blanks
\* skipped, an optional sign, digits, an optional point and digits; NaN when
\* no digit is there
parseFloat(s) ==
    LET start == BlanksEnd(s, 1)
        neg == start <= Len(s) /\ CharAt(s, start) = "-"
        i0 == IF neg THEN start + 1 ELSE start
        i1 == DigitsEnd(s, i0)
        point == i1 <= Len(s) /\ CharAt(s, i1) = "."
        f1 == IF point THEN DigitsEnd(s, i1 + 1) ELSE i1 + 1
        fracLen == f1 - (i1 + 1)
        magnitude == DecimalOf(s, i0, i1 - 1) * One
                        + (DecimalOf(s, i1 + 1, f1 - 1) * One) \div Pow10(fracLen)
    IN IF i1 = i0 /\ fracLen = 0 THEN NotANumber
       ELSE Finite(IF neg THEN 0 - magnitude ELSE magnitude)

\* Number(raw) for a raw value that is no string
ToNumber(raw) ==
    CASE raw.type = "number" -> raw.val
      [] raw.type = "boolean" -> Finite(IF raw.val THEN One ELSE 0)
      [] raw.type = "array" -> Finite(0)      \* the empty array
      [] OTHER -> NotANumber                   \* a plain object

\* mutant: the upper limit of the percent range is not looked at
normalizePrice_NoCeiling(raw) ==
    IF raw.type \in {"null", "undefined"} THEN Null
    ELSE LET parsed == IF raw.type = "string" THEN parseFloat(raw.val) ELSE ToNumber(raw) IN
         IF parsed.kind # "finite" THEN Null
         ELSE IF parsed.v < 0 THEN Null
         ELSE IF parsed.v > One THEN Some(parsed.v \div 100)
         ELSE Some(parsed.v)

normalizePrice(raw) ==
    IF raw.type \in {"null", "undefined"} THEN Null
    ELSE LET parsed == IF raw.type = "string" THEN parseFloat(raw.val) ELSE ToNumber(raw) IN
         IF parsed.kind # "finite" THEN Null
         ELSE IF parsed.v < 0 THEN Null
         ELSE IF parsed.v > One /\ parsed.v <= 100 * One THEN Some(parsed.v \div 100)
         ELSE IF parsed.v > One THEN Null
         ELSE Some(parsed.v)

Undefined == [type |-> "undefined", val |-> 0]
StringRaw(s) == [type |-> "string", val |-> s]
NumberRaw(n) == [type |-> "number", val |-> n]

\* the raw values normalizePrice is tried on
NumberValues ==
    {0 - One, 0 - 1, 0, 1, One \div 2, One - 1, One, One + 1, 55 * One, 100 * One,
     100 * One + 1, 101 * One}
RawValues ==
    {Undefined, [type |-> "null", val |-> 0], [type |-> "object", val |-> 0],
     [type |-> "array", val |-> 0]}
    \cup {[type |-> "boolean", val |-> b] : b \in BOOLEAN}
    \cup {NumberRaw(Finite(v)) : v \in NumberValues}
    \cup {NumberRaw(n) : n \in NotFinite}
    \cup {StringRaw(s) : s \in UNION {PriceStrings(n) : n \in 0..MaxRawLen}}

\* a ?? b ?? ...: the first value that is neither null nor undefined
RECURSIVE Coalesce(_)
Coalesce(values) ==
    IF values = <<>> THEN Undefined
    ELSE IF Head(values).type \in {"null", "undefined"} THEN Coalesce(Tail(values))
    ELSE Head(values)

\* String(raw) for the identifiers tried: strings and whole numbers below ten
StringOf(raw) ==
    IF raw.type = "string" THEN raw.val ELSE Digits[raw.val.v \div One + 1]

\* .filter((item) => item !== null)
DropNull(items) == [i \in 1..Len(SelectSeq(items, LAMBDA x : x # Null)) |->
                        Val(SelectSeq(items, LAMBDA x : x # Null)[i])]

\* Of a snapshot the platform, the identifier and the price are kept; the
\* title, the time stamp and the link are built from other fields.
PriceSnapshot(platform, marketId, price) ==
    [platform |-> platform, marketId |-> marketId, price |-> price]

\* of the seven price fields read, yes_price and price are modelled, of the
\* four identifier fields id and slug
fetchPolymarketPrices(markets) ==
    DropNull([i \in 1..Len(markets) |->
        LET market == markets[i]
            price == normalizePrice(Coalesce(<<market.yes_price, market.price>>)) IN
        IF price = Null THEN Null
        ELSE Some(PriceSnapshot("polymarket",
                           StringOf(Coalesce(<<market.id, market.slug, StringRaw("unknown")>>)),
                           Val(price)))])

\* of the six price fields read, yes_ask and last_price are modelled, of the
\* three identifier fields ticker and id
fetchKalshiPrices(markets) ==
    DropNull([i \in 1..Len(markets) |->
        LET market == markets[i]
            price == normalizePrice(Coalesce(<<market.yes_ask, market.last_price>>))
            ticker == Coalesce(<<market.ticker, market.id>>) IN
        IF price = Null THEN Null
        ELSE Some(PriceSnapshot("kalshi",
                           StringOf(Coalesce(<<ticker, StringRaw("unknown")>>)),
                           Val(price)))])

\* pricesByToken[market.yesTokenId]: no entry for a token whose price lookup
\* failed, and none for a market without a token
PriceInfo(pricesByToken, yesTokenId) ==
    IF yesTokenId.type = "string" /\ yesTokenId.val \in DOMAIN pricesByToken
    THEN pricesByToken[yesTokenId.val]
    ELSE Undefined

fetchOpinionMarketPrices(markets, pricesByToken) ==
    DropNull([i \in 1..Len(markets) |->
        LET market == markets[i]
            price == normalizePrice(PriceInfo(pricesByToken, market.yesTokenId)) IN
        IF price = Null THEN Null
        ELSE Some(PriceSnapshot("opinion", StringOf(market.marketId), Val(price)))])

\* raw prices and identifiers of the records tried
RecordPrices == {Undefined, NumberRaw(Finite(55 * One)), StringRaw("a")}
RecordIds == {Undefined, NumberRaw(Finite(One)), StringRaw("1")}
TokenIds == {"t1", "t2"}

PolymarketRecords ==
    [yes_price : RecordPrices, price : RecordPrices, id : RecordIds,
     slug : {Undefined, StringRaw("s")}]
KalshiRecords ==
    [yes_ask : RecordPrices, last_price : RecordPrices,
     ticker : {Undefined, StringRaw("K")}, id : {Undefined, NumberRaw(Finite(One))}]
OpinionRecords ==
    [marketId : {NumberRaw(Finite(One)), NumberRaw(Finite(2 * One))},
     yesTokenId : {Undefined} \cup {StringRaw(t) : t \in TokenIds}]

ListsOf(records) == UNION {[1..n -> records] : n \in 0..MaxRecords}

InitAdapter ==
    /\ InitAgg
    /\ InitPagerIdle
    /\ InitRetryIdle
    /\ \/ \E raw \in RawValues : fnArg = [fn |-> "normalizePrice", raw |-> raw]
       \/ \E markets \in ListsOf(PolymarketRecords) :
             fnArg = [fn |-> "fetchPolymarketPrices", markets |-> markets]
       \/ \E markets \in ListsOf(KalshiRecords) :
             fnArg = [fn |-> "fetchKalshiPrices", markets |-> markets]
       \/ \E markets \in ListsOf(OpinionRecords) :
             \E held \in SUBSET TokenIds : \E pricesByToken \in [held -> RecordPrices] :
                fnArg = [fn |-> "fetchOpinionMarketPrices", markets |-> markets,
                         pricesByToken |-> pricesByToken]
    /\ fnRet = <<>>

NormalizePrice ==
    /\ fnArg.fn = "normalizePrice"
    /\ fnRet = <<>>
    /\ fnRet' = <<normalizePrice(fnArg.raw)>>
    /\ UNCHANGED <<aggVars, retryVars, pager, fnArg>>

FetchPolymarketPrices ==
    /\ fnArg.fn = "fetchPolymarketPrices"
    /\ fnRet = <<>>
    /\ fnRet' = <<fetchPolymarketPrices(fnArg.markets)>>
    /\ UNCHANGED <<aggVars, retryVars, pager, fnArg>>

FetchKalshiPrices ==
    /\ fnArg.fn = "fetchKalshiPrices"
    /\ fnRet = <<>>
    /\ fnRet' = <<fetchKalshiPrices(fnArg.markets)>>
    /\ UNCHANGED <<aggVars, retryVars, pager, fnArg>>

FetchOpinionMarketPrices ==
    /\ fnArg.fn = "fetchOpinionMarketPrices"
    /\ fnRet = <<>>
    /\ fnRet' = <<fetchOpinionMarketPrices(fnArg.markets, fnArg.pricesByToken)>>
    /\ UNCHANGED <<aggVars, retryVars, pager, fnArg>>

NextAdapter ==
    \/ NormalizePrice
    \/ FetchPolymarketPrices
    \/ FetchKalshiPrices
    \/ FetchOpinionMarketPrices

SpecAdapter == InitAdapter /\ [][NextAdapter]_vars

\* the number a raw value stands for, and the price the step table gives it
NumberOf(raw) == IF raw.type = "string" THEN parseFloat(raw.val) ELSE ToNumber(raw)
TablePrice(raw) ==
    IF raw.type \in {"null", "undefined"} THEN Null
    ELSE LET x == NumberOf(raw) IN
         IF x.kind # "finite" \/ x.v < 0 \/ x.v > 100 * One THEN Null
         ELSE IF x.v <= One THEN Some(x.v)
         ELSE Some(x.v \div 100)

\* the raw price an adapter reads from its i-th record
RawPriceRead(i) ==
    LET market == fnArg.markets[i] IN
    CASE fnArg.fn = "fetchPolymarketPrices" -> Coalesce(<<market.yes_price, market.price>>)
      [] fnArg.fn = "fetchKalshiPrices" -> Coalesce(<<market.yes_ask, market.last_price>>)
      [] fnArg.fn = "fetchOpinionMarketPrices" ->
            PriceInfo(fnArg.pricesByToken, market.yesTokenId)

AdapterReturned ==
    /\ fnArg.fn \in {"fetchPolymarketPrices", "fetchKalshiPrices", "fetchOpinionMarketPrices"}
    /\ Returned

KeptRecords == {i \in 1..Len(fnArg.markets) : TablePrice(RawPriceRead(i)) # Null}

\* the record the k-th snapshot emitted comes from
RecordOf(k) ==
    CHOOSE i \in KeptRecords : Cardinality({j \in KeptRecords : j <= i}) = k

\* C23: normalizePrice returns null or a price from 0 to 1 (a number from 0
\* to 1 as it is, a number above 1 and up to 100 divided by 100, anything
\* else null), and an adapter emits one snapshot for each record whose price
\* normalizes, with that price, and none for the other records.
C23_PricesInUnitRange ==
    /\ (fnArg.fn = "normalizePrice" /\ Returned) =>
          /\ fnRet[1] = Null \/ Val(fnRet[1]) \in 0..One
          /\ fnRet[1] = TablePrice(fnArg.raw)
    /\ AdapterReturned =>
          /\ Len(Result) = Cardinality(KeptRecords)
          /\ \A k \in 1..Len(Result) :
                /\ Result[k].price \in 0..One
                /\ Some(Result[k].price) = TablePrice(RawPriceRead(RecordOf(k)))

\* two Opinion markets: the price lookup of the first one's token failed,
\* the second one is emitted at 0.55
C23_Witness ==
    /\ fnArg.fn = "fetchOpinionMarketPrices" /\ Returned
    /\ Len(fnArg.markets) = 2
    /\ fnArg.markets[1].yesTokenId = StringRaw("t1")
    /\ "t1" \notin DOMAIN fnArg.pricesByToken
    /\ Len(Result) = 1
    /\ Result[1].marketId = StringOf(fnArg.markets[2].marketId)
    /\ 100 * Result[1].price = 55 * One

\* C24 (as claimed): no two snapshots of a list returned by an adapter, and
\* so of the aggregated list built from it, have the same platform and the
\* same marketId.
C24_PlatformIdUnique ==
    AdapterReturned =>
        \A i, j \in 1..Len(Result) :
            (Result[i].platform = Result[j].platform /\ Result[i].marketId = Result[j].marketId)
                => i = j

(***************************************************************************)
(* buildClusters on one candidate pair: two snapshots of different         *)
(* platforms with a common bucket key, titles of the lengths of            *)
(* TitleLengths, and any similarity                                        *)
(***************************************************************************)
Similarities == 0..100

InitThreshold ==
    /\ InitAgg
    /\ InitPagerIdle
    /\ InitRetryIdle
    /\ \E a, b \in LengthIds : \E similarity \in Similarities :
          fnArg = [fn |-> "buildClusters",
                   snapshots |-> << [platform |-> "kalshi", title |-> a],
                                    [platform |-> "opinion", title |-> b] >>,
                   sim |-> (<<1, 2>> :> similarity)]
    /\ fnRet = <<>>

SpecThreshold == InitThreshold /\ [][NextCluster]_vars

\* twice the average length of the two titles of the pair
TwiceL(snapshots) == Len(TitleTable[snapshots[1].title].text) + Len(TitleTable[snapshots[2].title].text)

\* the step table, in hundredths
StepTable(twiceL) ==
    IF twiceL <= 90 THEN 88
    ELSE IF twiceL <= 160 THEN 82
    ELSE IF twiceL < 280 THEN 78
    ELSE 72

PairInput == fnArg.fn = "buildClusters" /\ Len(Input) = 2 /\ DOMAIN fnArg.sim = {<<1, 2>>}

\* C28: the pair is unioned exactly when its similarity is at or above the
\* step table's value for the average length L of the two titles (0.88 up to
\* 45, 0.82 up to 80, 0.78 below 140, 0.72 from 140 on); the threshold is the
\* same for pairs of the same L and never greater for a greater L.
C28_ThresholdSteps ==
    (PairInput /\ Returned) =>
        /\ Result.compared = << <<1, 2>> >>
        /\ Result.unions = << <<1, 2>> >> <=> fnArg.sim[<<1, 2>>] >= StepTable(TwiceL(Input))
        /\ Result.unions = <<>> <=> fnArg.sim[<<1, 2>>] < StepTable(TwiceL(Input))
        /\ Len(Result.clusters) = 1 <=> fnArg.sim[<<1, 2>>] >= StepTable(TwiceL(Input))
        /\ \A a, b \in LengthIds :
              LET other == << [title |-> a], [title |-> b] >> IN
              /\ getAdaptiveThreshold(a, b) = StepTable(TwiceL(other))
              /\ TwiceL(other) = TwiceL(Input) =>
                    getAdaptiveThreshold(a, b) =
                        getAdaptiveThreshold(Input[1].title, Input[2].title)
              /\ TwiceL(other) >= TwiceL(Input) =>
                    getAdaptiveThreshold(a, b) <=
                        getAdaptiveThreshold(Input[1].title, Input[2].title)

\* titles of 45 and 46 characters (L = 45.5) with similarity 0.82 are unioned
C28_Witness ==
    /\ PairInput /\ Returned
    /\ TwiceL(Input) = 91
    /\ fnArg.sim[<<1, 2>>] = 82
    /\ Result.unions = << <<1, 2>> >>
    /\ Len(Result.clusters) = 1

(***************************************************************************)
(* Canonical member and ordering of the clusters (checked under            *)
(* SpecCluster)                                                            *)
(***************************************************************************)
TitleLength(i) == Len(TitleTable[Input[i].title].text)

\* the member with the longest title, the first in the input among equals
FirstLongest(cluster) ==
    CHOOSE i \in MembersOf(cluster) :
        \A j \in MembersOf(cluster) :
            \/ TitleLength(j) < TitleLength(i)
            \/ TitleLength(j) = TitleLength(i) /\ i <= j

\* C29: the title of every cluster is the title of its member with the
\* longest title, the first of them in the input list when several are
\* equally long; the cluster's id names that member and its themeKey is the
\* theme of that member's title.
C29_CanonicalIsFirstLongest ==
    (fnArg.fn = "buildClusters" /\ Returned) =>
        \A c \in 1..Len(Result.clusters) :
            LET cluster == Result.clusters[c]
                primary == FirstLongest(cluster) IN
            /\ cluster.title = Input[primary].title
            /\ cluster.id[2] = primary
            /\ cluster.themeKey = ThemeOfTitle[Input[primary].title]

\* a cluster of two equally long titles of different themes, the first of
\* them in the input placed second by the ordering of the members
C29_Witness ==
    /\ fnArg.fn = "buildClusters" /\ Returned
    /\ \E c \in 1..Len(Result.clusters) :
          LET cluster == Result.clusters[c] IN
          /\ Len(cluster.markets) = 2
          /\ cluster.markets[2].idx < cluster.markets[1].idx
          /\ TitleLength(cluster.markets[1].idx) = TitleLength(cluster.markets[2].idx)
          /\ cluster.markets[1].title # cluster.markets[2].title
          /\ cluster.title = cluster.markets[2].title
          /\ cluster.themeKey # ThemeOfTitle[cluster.markets[1].title]

(***************************************************************************)
(* buildClusters on longer lists of snapshots that all share one bucket    *)
(* key, so that clusters of two platforms and different sizes occur        *)
(***************************************************************************)
MaxOrdered == 5       \* longest list of snapshots ordered

InitOrder ==
    /\ InitAgg
    /\ InitPagerIdle
    /\ InitRetryIdle
    /\ \E n \in 0..MaxOrdered :
          \E snapshots \in [1..n -> [platform : ClusterPlatforms, title : {1}]] :
             \E sim \in [SimQuestions(snapshots) -> SimValues] :
                fnArg = [fn |-> "buildClusters", snapshots |-> snapshots, sim |-> sim]
    /\ fnRet = <<>>

SpecOrder == InitOrder /\ [][NextCluster]_vars

SourcesOf(cluster) == {Input[i].platform : i \in MembersOf(cluster)}

\* C30: platformCount is the number of distinct platforms among the members;
\* of two neighbours in the list of clusters the earlier one has the greater
\* platformCount or, with equal platformCount, at least as many members; the
\* members of a cluster are in the order of their platforms' names.
C30_ClustersOrdered ==
    (fnArg.fn = "buildClusters" /\ Returned) =>
        /\ \A c \in 1..Len(Result.clusters) :
              LET cluster == Result.clusters[c] IN
              /\ cluster.platformCount = Cardinality(SourcesOf(cluster))
              /\ \A m \in 1..(Len(cluster.markets) - 1) :
                    PlatformRank(cluster.markets[m].platform)
                        <= PlatformRank(cluster.markets[m + 1].platform)
        /\ \A c \in 1..(Len(Result.clusters) - 1) :
              LET first == Result.clusters[c]
                  second == Result.clusters[c + 1] IN
              \/ first.platformCount > second.platformCount
              \/ /\ first.platformCount = second.platformCount
                 /\ Len(first.markets) >= Len(second.markets)

\* a cluster of three markets is placed before a cluster of two markets that
\* holds the first snapshot of the input
C30_Witness ==
    /\ fnArg.fn = "buildClusters" /\ Returned
    /\ Len(Result.clusters) >= 2
    /\ Len(Result.clusters[1].markets) = 3
    /\ Len(Result.clusters[2].markets) = 2
    /\ Result.clusters[1].platformCount = 2
    /\ Result.clusters[2].platformCount = 2
    /\ 1 \in MembersOf(Result.clusters[2])
    /\ Result.clusters[1].markets[1].idx > Result.clusters[1].markets[2].idx

\* ---------------------------------------------------------------------
\* matchesKeyword on its own, called as classifyMarketTheme calls it
\* ---------------------------------------------------------------------

\* keywords of one word and of two words, each declared by some theme
MatchKeywords == {"ai", "rain", "house", "white house", "el nino"}

InitMatch ==
    /\ InitAgg
    /\ InitPagerIdle
    /\ InitRetryIdle
    /\ \E title \in ThemeTitles, keyword \in MatchKeywords :
          fnArg = [fn |-> "matchesKeyword", title |-> title, keyword |-> keyword]
    /\ fnRet = <<>>

\* matchesKeyword(normalizedTitle, tokens, keyword) with normalizedTitle and
\* tokens as classifyMarketTheme builds them
MatchesKeyword ==
    /\ fnArg.fn = "matchesKeyword"
    /\ fnRet = <<>>
    /\ fnRet' = <<matchesKeyword(toLowerCase(fnArg.title),
                                 Range(tokenizeTitle(fnArg.title)), fnArg.keyword)>>
    /\ UNCHANGED <<aggVars, retryVars, pager, fnArg>>

NextMatch == MatchesKeyword

SpecMatch == InitMatch /\ [][NextMatch]_vars

HasSpace(keyword) == \E i \in 1..Len(keyword) : CharAt(keyword, i) = " "

\* C31: a keyword of one word matches exactly when it stands in the
\* lower-cased title with no letter or digit on either side, so never when
\* every occurrence lies inside a longer word ("ai" in "said", "chain",
\* "rain"); a keyword of several words matches exactly when it is a
\* substring of the lower-cased title.
C31_KeywordMatchForm ==
    (fnArg.fn = "matchesKeyword" /\ Returned) =>
        LET lower == toLowerCase(fnArg.title)
            keyword == fnArg.keyword IN
        /\ MatchKeywords \subseteq DeclaredKeywords
        /\ HasSpace(keyword) => (fnRet[1] <=> includes(lower, keyword))
        /\ ~HasSpace(keyword) => (fnRet[1] <=> OccursAsWord(lower, keyword))
        /\ (~HasSpace(keyword) /\ fnRet[1]) =>
              \E k \in 1..Len(tokenizeTitle(fnArg.title)) :
                  tokenizeTitle(fnArg.title)[k] = keyword

\* "ai" occurs in "chain" only inside a word, and is not matched
C31_Witness ==
    /\ fnArg.fn = "matchesKeyword" /\ Returned
    /\ fnArg.keyword = "ai"
    /\ fnArg.title = "chain"
    /\ includes(toLowerCase(fnArg.title), "ai")
    /\ ~fnRet[1]

\* ---------------------------------------------------------------------
\* buildClusters on snapshots that carry category, description and tags
\* ---------------------------------------------------------------------

MaxTagged == 2        \* most snapshots in one list with auxiliary fields

\* an optional string is <<>> when absent and <<text>> when present;
\* tags ?? [] is the sequence of the tags
MetaChoices ==
    {[category |-> <<>>, description |-> <<>>, tags |-> <<>>],
     [category |-> <<"Crypto">>, description |-> <<>>, tags |-> <<>>],
     [category |-> <<>>, description |-> <<"Settles on the Bitcoin spot price.">>, tags |-> <<>>],
     [category |-> <<>>, description |-> <<>>, tags |-> <<"markets", "btc">>]}

\* titles of theme crypto (1) and of no theme (3, 5)
MetaTitles == {1, 3, 5}

TaggedSnapshots ==
    {[platform |-> p, title |-> t, category |-> m.category,
      description |-> m.description, tags |-> m.tags] :
        p \in ClusterPlatforms, t \in MetaTitles, m \in MetaChoices}

InitMeta ==
    /\ InitAgg
    /\ InitPagerIdle
    /\ InitRetryIdle
    /\ \E n \in 0..MaxTagged : \E snapshots \in [1..n -> TaggedSnapshots] :
         \E sim \in [SimQuestions(snapshots) -> SimValues] :
            fnArg = [fn |-> "buildClusters", snapshots |-> snapshots, sim |-> sim]
    /\ fnRet = <<>>

SpecMeta == InitMeta /\ [][NextCluster]_vars

\* the texts of the second argument at the call of classifyMarketTheme
AuxiliaryTexts(snapshot) ==
    Range(snapshot.category) \cup Range(snapshot.description) \cup Range(snapshot.tags)

\* some text of the snapshot's auxiliary fields has a keyword of theme t
AuxiliaryHit(snapshot, t) ==
    \E text \in AuxiliaryTexts(snapshot) : ThemeHit(text, t)

\* C32: a cluster whose canonical title has no theme keyword and whose
\* canonical snapshot has a theme keyword in its category, description or
\* tags gets the first such theme, not "other".
C32_AuxiliaryFieldsClassify ==
    (fnArg.fn = "buildClusters" /\ Returned) =>
        \A c \in 1..Len(Result.clusters) :
            LET cluster == Result.clusters[c]
                primary == Input[cluster.id[2]] IN
            \A t \in 1..Len(MarketThemes) :
                (/\ ThemeOfTitle[primary.title] = "other"
                 /\ AuxiliaryHit(primary, t)
                 /\ \A u \in 1..(t - 1) : ~AuxiliaryHit(primary, u))
                    => cluster.themeKey = MarketThemes[t]

\* ---------------------------------------------------------------------
\* Opinion client: fetchMarkets(limit, offset), the pagination loop
\* ---------------------------------------------------------------------

API_PAGE_SIZE == 15
MAX_EMPTY_PAGES == 2

MaxFetchLimit == 16   \* largest limit asked for: more than one page
MaxExtra == 1         \* markets a page may hold beyond the pageLimit asked for

FetchLimits == {0, 1, 2, MaxFetchLimit}
StartOffsets == {0, 2}

\* pageResult.total: <<>> when undefined, <<n>> when the number n
ReportedTotals == {<<>>, <<2>>, <<16>>, <<40>>}

\* the locals of fetchMarkets before the first test of the loop; allMarkets
\* is held by its length, and pageCount, which is only logged, is left out
InitPager ==
    /\ InitAgg
    /\ InitRetryIdle
    /\ InitFnIdle
    /\ \E limit \in FetchLimits, startOffset \in StartOffsets :
          pager = [pc |-> "loop", limit |-> limit, allMarkets |-> 0,
                   currentOffset |-> startOffset, remaining |-> limit,
                   totalAvailable |-> <<>>,
                   consecutiveEmptyPages |-> 0, pageLimit |-> 0]

\* mutant: an empty page is neither counted nor skipped
EmptyPage_Forgets(p) ==
    [p EXCEPT !.pc = "delay"]

\* if (pageMarkets.length === 0) { ... }
EmptyPage(p) ==
    IF p.consecutiveEmptyPages + 1 >= MAX_EMPTY_PAGES
    THEN [p EXCEPT !.consecutiveEmptyPages = @ + 1, !.pc = "returned"]
    ELSE [p EXCEPT !.consecutiveEmptyPages = @ + 1,
                   !.currentOffset = @ + p.pageLimit, !.pc = "delay"]

\* the rest of the loop body for a page of length > 0 markets
CollectPage(p, length) ==
    LET q == [p EXCEPT !.consecutiveEmptyPages = 0,
                       !.allMarkets = @ + length,
                       !.currentOffset = @ + length,
                       !.remaining = @ - length]
        reachedTotal == q.totalAvailable # <<>> /\ q.currentOffset >= q.totalAvailable[1] IN
    IF reachedTotal THEN [q EXCEPT !.pc = "returned"]
    ELSE IF length < p.pageLimit /\ ~(q.remaining > 0) THEN [q EXCEPT !.pc = "returned"]
    ELSE IF q.remaining > 0 THEN [q EXCEPT !.pc = "delay"]
    ELSE [q EXCEPT !.pc = "loop"]

\* the loop body after await fetchMarketsPage(pageLimit, currentOffset)
AfterPage(p, length, total) ==
    LET captured == [p EXCEPT !.totalAvailable =
                        IF @ = <<>> /\ total # <<>> THEN total ELSE @] IN
    IF length = 0 THEN EmptyPage(captured) ELSE CollectPage(captured, length)

\* while (remaining > 0): the next page is asked for, or the loop is left
\* and allMarkets returned
PagerLoop ==
    /\ pager # <<>> /\ pager.pc = "loop"
    /\ pager' = IF pager.remaining > 0
                THEN [pager EXCEPT !.pageLimit = Min(API_PAGE_SIZE, pager.remaining),
                                   !.pc = "page"]
                ELSE [pager EXCEPT !.pc = "returned"]
    /\ UNCHANGED <<aggVars, retryVars, fnVars>>

\* fetchMarketsPage resolves with { markets, total }
PageResolves ==
    /\ pager # <<>> /\ pager.pc = "page"
    /\ \E length \in 0..(pager.pageLimit + MaxExtra), total \in ReportedTotals :
          pager' = AfterPage(pager, length, total)
    /\ UNCHANGED <<aggVars, retryVars, fnVars>>

\* fetchMarketsPage throws: fetchMarkets has no catch, the call rejects
PageRejects ==
    /\ pager # <<>> /\ pager.pc = "page"
    /\ pager' = [pager EXCEPT !.pc = "threw"]
    /\ UNCHANGED <<aggVars, retryVars, fnVars>>

\* await new Promise(resolve => setTimeout(resolve, 100))
DelayFires ==
    /\ pager # <<>> /\ pager.pc = "delay"
    /\ pager' = [pager EXCEPT !.pc = "loop"]
    /\ UNCHANGED <<aggVars, retryVars, fnVars>>

NextPager == PagerLoop \/ PageResolves \/ PageRejects \/ DelayFires

SpecPager == InitPager /\ [][NextPager]_vars

\* every page request settles and every timer fires
SpecPagerFair == SpecPager /\ WF_vars(NextPager)

\* C33: the list fetchMarkets returns is no longer than limit.
C33_AtMostLimit ==
    (pager # <<>> /\ pager.pc = "returned") => pager.allMarkets <= pager.limit

Finished == pager # <<>> /\ pager.pc \in {"returned", "threw"}

\* one settled page request: markets collected, or an empty page counted
PageStep ==
    (pager.pc = "page" /\ pager'.pc # "threw") =>
        \/ /\ pager'.allMarkets > pager.allMarkets
           /\ pager'.remaining < pager.remaining
           /\ pager'.consecutiveEmptyPages = 0
        \/ /\ pager'.allMarkets = pager.allMarkets
           /\ pager'.remaining = pager.remaining
           /\ pager'.consecutiveEmptyPages = pager.consecutiveEmptyPages + 1

\* the loop is left for one of its three reasons
StopStep ==
    (pager.pc # "returned" /\ pager'.pc = "returned") =>
        \/ pager'.remaining <= 0
        \/ pager'.totalAvailable # <<>> /\ pager'.currentOffset >= pager'.totalAvailable[1]
        \/ pager'.consecutiveEmptyPages >= MAX_EMPTY_PAGES

\* a rejected page request ends the call, with nothing collected afterwards
AbortStep ==
    /\ pager'.pc = "threw" => pager.pc \in {"page", "threw"}
    /\ pager.pc = "threw" => pager' = pager

\* C34: when every page request settles the call returns or rejects; each
\* settled page either adds markets and lowers remaining or raises the
\* count of consecutive empty pages; the loop is left only with remaining
\* <= 0, with currentOffset at the reported total, or with 2 consecutive
\* empty pages; a rejected page request rejects the call.
C34_PaginationTerminates ==
    /\ <>Finished
    /\ [][PageStep /\ StopStep /\ AbortStep]_vars
    /\ []((pager.pc = "page") => (pager.remaining > 0 /\ pager.consecutiveEmptyPages < MAX_EMPTY_PAGES))

\* the call returned short of its limit after two empty pages in a row,
\* having skipped more than one empty page before and collected markets
C34_Witness ==
    /\ pager # <<>> /\ pager.pc = "returned"
    /\ pager.consecutiveEmptyPages = MAX_EMPTY_PAGES
    /\ pager.allMarkets >= 2
    /\ pager.currentOffset > pager.allMarkets + API_PAGE_SIZE + 2
    /\ pager.remaining > 0

\* ---------------------------------------------------------------------
\* The route: runs follow one another
\* ---------------------------------------------------------------------

ActiveRuns == {k \in Requests : RunActive(k)}

\* no branch of any run waits on, or has the result of, another run's fetch
NoBranchJoined ==
    \A k \in ActiveRuns : \A p \in Platforms :
        /\ Val(runs[k]).branch[p].st # "joined"
        /\ Val(runs[k]).branch[p].how \notin {"joinok", "joinfail"}

\* C35: at most one run is in flight; while none is, no platform has a
\* fetch registered in platformInflight; no branch of a run ever joins a
\* fetch it did not start; and a run that starts finds platformInflight
\* empty and itself calls the fetcher of every platform whose cache entry
\* is missing or expired.
C35_RunsSerialized ==
    /\ [](Cardinality(ActiveRuns) <= 1)
    /\ []((inflightPromise = 0) => \A p \in Platforms : platformInflight[p] = 0)
    /\ []NoBranchJoined
    /\ [][ \A k \in Requests : RunStarts(k) =>
             \A p \in Platforms :
                /\ platformInflight[p] = 0
                /\ ~PlatformCacheFresh(p) =>
                      /\ Val(runs'[k]).branch[p].st = "fetching"
                      /\ Val(runs'[k]).branch[p].on = k
                      /\ platformInflight'[p] = k
                      /\ calls'[p] = calls[p] + 1 ]_vars

\* a later run: it fetches a platform whose entry has expired for the
\* second time and takes another platform from its fresh entry
C35_Witness ==
    \E k \in ActiveRuns : \E p, q \in Platforms :
        /\ Fetching(k, p)
        /\ platformCache[p] # Null
        /\ calls[p] = 2
        /\ platformInflight[p] = k
        /\ Val(runs[k]).branch[q].how = "cached"

\* ---------------------------------------------------------------------
\* The route: what the response cache holds
\* ---------------------------------------------------------------------

\* C36: the entry in the response cache never has stale = true and changes
\* only in a step that answers MISS, to the body of that answer; a HIT
\* carries stale = false; a body with stale = true is a STALE answer, given
\* in the step in which the run the request awaited threw.
C36_CacheNeverStale ==
    /\ [](cache # Null => Val(cache).data.stale = FALSE)
    /\ [](\A r \in Requests :
            /\ out[r].kind = "HIT" => out[r].body.stale = FALSE
            /\ out[r].body.stale = TRUE => (out[r].kind = "STALE" /\ RunThrew))
    /\ [][ /\ cache' # cache =>
                 \E r \in Requests :
                    /\ out'[r].kind = "MISS"
                    /\ Val(cache').data = out'[r].body
           /\ \A r \in Requests :
                 out'[r].kind = "STALE" =>
                    /\ req[r].pc = "awaiting"
                    /\ RunReady(req[r].run)
                    /\ BuildClustersThrows(CollectList(Val(runs[req[r].run]).branch, 1))
                    /\ cache' = cache ]_vars

\* a STALE answer marked stale while the entry it was copied from is not
C36_Witness ==
    /\ cache # Null
    /\ Val(cache).data.stale = FALSE
    /\ \E r \in Requests :
          /\ out[r].kind = "STALE"
          /\ out[r].body.stale = TRUE
          /\ out[r].body.list = Val(cache).data.list

\* ---------------------------------------------------------------------
\* The route under requests with different limit parameters
\* ---------------------------------------------------------------------

RequestLimits == {MIN_LIMIT, DEFAULT_LIMIT}

\* an upstream that answers with one well-formed snapshot or fails: the
\* aggregation itself never throws
KeyedPayloads(p, g, limit) == {<<Snapshot(p, g, TRUE, limit)>>}

NextKeyed ==
    \/ \E r \in Requests : \E limit \in RequestLimits : GetHitWith(r, limit)
    \/ \E r \in Requests : \E limit \in RequestLimits : GetMissWith(r, limit)
    \/ \E k \in Requests : \E p \in Platforms :
           \E d \in KeyedPayloads(p, calls[p], CallLimit(k)) : FetchResolve(k, p, d)
    \/ \E k \in Requests : \E p \in Platforms : FetchReject(k, p)
    \/ \E k \in Requests : RunResolve(k)
    \/ \E d \in TickSteps : Tick(d)

SpecKeyed == Init /\ [][NextKeyed]_vars

LimitsIn(list) == {list[i].limit : i \in 1..Len(list)}

\* C37: the limit of a request decides nothing but the argument of the
\* fetcher calls made by the run it starts.  A run has the limit of the
\* request that started it and every list its fetchers return was asked
\* for with that limit; a request that finds a run in flight waits for that
\* run and starts nothing; a fresh platform entry is used as it is; a MISS
\* answer is the list of the run awaited and a HIT answer is the cached
\* body, whatever limit the request carried.
C37_LimitNotAKey ==
    [][ /\ \A k \in Requests : \A p \in Platforms :
              FetchSettles(k, p, "fetched") =>
                 /\ LimitsIn(Val(runs'[k]).branch[p].data) \subseteq {Val(runs[k]).limit}
                 /\ Val(platformCache'[p]).data = Val(runs'[k]).branch[p].data
        /\ \A k \in Requests :
              RunStarts(k) =>
                 /\ req'[k].pc = "awaiting" /\ req'[k].run = k
                 /\ Val(runs'[k]).limit = req'[k].limit
                 /\ \A p \in Platforms :
                       PlatformCacheFresh(p) =>
                          Val(runs'[k]).branch[p].data = Val(platformCache[p]).data
        /\ \A r \in Requests :
              (req[r].pc = "idle" /\ req'[r].pc = "awaiting" /\ inflightPromise # 0) =>
                 /\ req'[r].run = inflightPromise
                 /\ UNCHANGED <<runs, calls, platformInflight, inflightPromise>>
        /\ \A r \in Requests :
              /\ out'[r].kind = "MISS" =>
                    out'[r].body.list = CollectList(Val(runs[req[r].run]).branch, 1)
              /\ out'[r].kind = "HIT" => out'[r].body = Val(cache).data
              /\ (out'[r].kind = "HIT" /\ cache # Null) => cache' = cache ]_vars

\* a request waits for a run started with another limit; that run fetched
\* one platform with its own limit and took another platform from a fresh
\* entry fetched with a different limit
C37_Witness ==
    \E r \in Requests : \E k \in ActiveRuns : \E p, q \in Platforms :
        /\ req[r].pc = "awaiting" /\ req[r].run = k /\ r # k
        /\ req[r].limit # Val(runs[k]).limit
        /\ Val(runs[k]).branch[p].how = "fetched"
        /\ LimitsIn(Val(runs[k]).branch[p].data) = {Val(runs[k]).limit}
        /\ Val(runs[k]).branch[q].how = "cached"
        /\ LimitsIn(Val(runs[k]).branch[q].data) = {req[r].limit}

\* ---------------------------------------------------------------------
\* fetchWithRetry: every slot obtained is given back
\* ---------------------------------------------------------------------

HoldsSlot(f) == f.pc \in {"fetching", "sleepHolding"}

\* the callers admitted by the limiter in this step
Admitted == {c \in Callers : fw'[c].attempts = fw[c].attempts + 1}

\* the holders whose attempt ends in this step
AttemptEnds == {c \in Callers : HoldsSlot(fw[c]) /\ (~HoldsSlot(fw'[c]) \/ c \in Admitted)}

\* limiter.release() calls of this step, read off the counter
Releases == Cardinality(Admitted) - (limiter'.inflight - limiter.inflight)

\* C38: every attempt that obtained a slot gives it back exactly once when
\* the attempt ends, however it ends (response returned, backoff after a
\* retryable status, error thrown for a status, timeout or network error),
\* and not before; a call that has returned or thrown holds no slot and is
\* not queued; once every call has ended inflight is 0 and the queue empty.
C38_NoSlotLeak ==
    /\ [][ /\ Releases = Cardinality(AttemptEnds)
           /\ Cardinality(AttemptEnds) <= 1
           /\ \A c \in Callers : fw'[c].attempts \in {fw[c].attempts, fw[c].attempts + 1} ]_vars
    /\ [](limiter.inflight = Cardinality({c \in Callers : HoldsSlot(fw[c])}))
    /\ [](\A c \in Callers : Terminated(c) => c \notin Range(limiter.queue))
    /\ []((\A c \in Callers : Terminated(c)) =>
              (limiter.inflight = 0 /\ limiter.queue = <<>>))

\* every call has ended, one by returning after a backoff and one by
\* throwing a timeout after its last attempt, and the limiter is idle
C38_Witness ==
    /\ \A c \in Callers : Terminated(c)
    /\ \E c \in Callers : fw[c].pc = "returned" /\ Len(fw[c].sleeps) >= 1
    /\ \E c \in Callers : fw[c].pc = "thrown" /\ fw[c].lastError = "timeout"
    /\ limiter = [inflight |-> 0, queue |-> <<>>]

\* ---------------------------------------------------------------------
\* buildClusters: clusters of several members
\* ---------------------------------------------------------------------

PlatformsOf(cluster) == {Input[i].platform : i \in MembersOf(cluster)}

\* union was called on i and j
Unioned(i, j) ==
    \E k \in 1..Len(Result.unions) :
        Result.unions[k] = <<i, j>> \/ Result.unions[k] = <<j, i>>

\* C39: a cluster of two or more members has members of at least two
\* platforms, and platformCount says so; two members of one platform were
\* never unioned with each other, and each of them was unioned with a
\* member of another platform.
C39_SeveralMembersSeveralSources ==
    (fnArg.fn = "buildClusters" /\ Returned) =>
        \A c \in 1..Len(Result.clusters) :
            LET cluster == Result.clusters[c] IN
            /\ Len(cluster.markets) >= 2 =>
                  /\ cluster.platformCount >= 2
                  /\ Cardinality(PlatformsOf(cluster)) >= 2
            /\ \A i, j \in MembersOf(cluster) :
                  (i # j /\ Input[i].platform = Input[j].platform) =>
                      /\ ~Unioned(i, j)
                      /\ \E m \in MembersOf(cluster) :
                            Input[m].platform # Input[i].platform /\ Unioned(i, m)

\* a cluster holding two snapshots of one platform and one of another
C39_Witness ==
    /\ fnArg.fn = "buildClusters" /\ Returned
    /\ \E c \in 1..Len(Result.clusters) :
          LET cluster == Result.clusters[c] IN
          /\ Len(cluster.markets) = 3
          /\ cluster.platformCount = 2
          /\ \E i, j \in MembersOf(cluster) :
                i # j /\ Input[i].platform = Input[j].platform
====
